---- MODULE Spec2Model ----
(***************************************************************************)
(* Conversation reconstruction and search over the Cursor key-value store. *)
(*                                                                         *)
(* The store is the table cursorDiskKV of state.vscdb: rows in insertion   *)
(* (rowid) order, each a key and a serialized JSON value.  Keys are        *)
(* composerData:<composerId> and bubbleId:<composerId>:<bubbleId>; the     *)
(* ids are UUIDs written by the host, so they hold no LIKE metacharacter   *)
(* and "key LIKE 'bubbleId:<id>:%'" selects exactly the rows of <id>.      *)
(*                                                                         *)
(* Strings are sequences of one-character strings.  A JSON value is a      *)
(* tagged record: [t |-> "absent"] (key not in the dict), "null", "str",   *)
(* "num", "bool", "list", "dict".                                          *)
(***************************************************************************)
EXTENDS Integers, Sequences, FiniteSets, TLC

VARIABLES
    dbExists,    \* global_storage_path.exists()
    store,       \* rows of cursorDiskKV, index = rowid
    workspace,   \* composers gathered from the workspace tables
    result       \* the last call: operation, arguments and outcome

vars == <<dbExists, store, workspace, result>>

-----------------------------------------------------------------------------
(* Bounds of the model *)

MaxRows == 2        \* rows of cursorDiskKV
MaxOrder == 2       \* entries of fullConversationHeadersOnly
MaxLimit == 2       \* the limit argument of search_all
MaxHeaders == 3     \* entries of fullConversationHeadersOnly, context windows
MaxRadius == 2      \* the context_size argument of get_dialog_context
MaxCode == 20       \* the largest tool code of a stored tool call
MaxDepth == 2       \* directories nested in a project layout

-----------------------------------------------------------------------------
(* JSON values *)

JAbsent == [t |-> "absent"]
JNull == [t |-> "null"]
JStr(s) == [t |-> "str", s |-> s]
JNum(n) == [t |-> "num", n |-> n]
JBool(b) == [t |-> "bool", b |-> b]
JList(l) == [t |-> "list", l |-> l]
JDict(d) == [t |-> "dict", d |-> d]
\* A dict whose key order matters (a project layout): a sequence of [k, v]
JODict(items) == [t |-> "odict", items |-> items]

\* Python truthiness of the value dict.get(key) returns
Truthy(v) ==
    CASE v.t = "absent" -> FALSE
      [] v.t = "null" -> FALSE
      [] v.t = "str" -> v.s /= <<>>
      [] v.t = "num" -> v.n /= 0
      [] v.t = "bool" -> v.b
      [] v.t = "list" -> v.l /= <<>>
      [] v.t = "odict" -> v.items /= <<>>
      [] OTHER -> TRUE

\* dict.get(key, default): the default only when the key is missing
Get(v, default) == IF v.t = "absent" THEN default ELSE v

\* a or b
Or(a, b) == IF Truthy(a) THEN a ELSE b

-----------------------------------------------------------------------------
(* Strings *)

Whitespace == {" "}

RECURSIVE LStrip(_)
LStrip(s) ==
    IF s /= <<>> /\ Head(s) \in Whitespace THEN LStrip(Tail(s)) ELSE s

RECURSIVE RStrip(_)
RStrip(s) ==
    IF s /= <<>> /\ s[Len(s)] \in Whitespace
    THEN RStrip(SubSeq(s, 1, Len(s) - 1))
    ELSE s

\* str.strip()
Strip(s) == RStrip(LStrip(s))

\* str.startswith(prefix)
StartsWith(s, prefix) ==
    /\ Len(s) >= Len(prefix)
    /\ SubSeq(s, 1, Len(prefix)) = prefix

-----------------------------------------------------------------------------
(* Outcomes of a call *)

Ok(v) == [status |-> "ok", value |-> v]
Raise(e) == [status |-> "raise", exc |-> e]

-----------------------------------------------------------------------------
(* json.loads *)

Quote == "\""
Backslash == "\\"

\* The characters of a JSON string literal, decoded: \" is a quote and \\
\* a backslash.  Stored strings are kept as they are written in the value.
RECURSIVE Unescape(_)
Unescape(s) ==
    IF s = <<>> THEN <<>>
    ELSE IF Head(s) = Backslash /\ Len(s) >= 2
         THEN <<s[2]>> \o Unescape(SubSeq(s, 3, Len(s)))
         ELSE <<Head(s)>> \o Unescape(Tail(s))

\* The Python value of a parsed JSON document
RECURSIVE DecodeJ(_)
DecodeJ(v) ==
    CASE v.t = "str" -> JStr(Unescape(v.s))
      [] v.t = "list" -> JList([i \in 1..Len(v.l) |-> DecodeJ(v.l[i])])
      [] v.t = "dict" -> JDict([k \in DOMAIN v.d |-> DecodeJ(v.d[k])])
      [] v.t = "odict" ->
            JODict([i \in 1..Len(v.items) |->
                       [k |-> v.items[i].k, v |-> DecodeJ(v.items[i].v)]])
      [] OTHER -> v

\* json.loads(value): a value that is not JSON raises JSONDecodeError
JsonLoads(value) ==
    IF value.json = "invalid" THEN Raise("JSONDecodeError")
    ELSE Ok(DecodeJ(value.doc))

\* d.get(key) on a parsed dict whose key may be missing
Field(d, key) == IF key \in DOMAIN d THEN d[key] ELSE JAbsent

\* bool(d) of a dict
DictTruthy(d) == \E k \in DOMAIN d : d[k].t /= "absent"

\* bool(v) of any parsed value
IsTruthy(v) == IF v.t = "dict" THEN DictTruthy(v.d) ELSE Truthy(v)

\* a or b on parsed values
OrElse(a, b) == IF IsTruthy(a) THEN a ELSE b

-----------------------------------------------------------------------------
(* The table cursorDiskKV *)

Threshold == 100

ComposerKey(cid) == [k |-> "composerData", cid |-> cid, bid |-> ""]
BubbleKey(cid, bid) == [k |-> "bubbleId", cid |-> cid, bid |-> bid]

\* Every row, whatever the length of its value
AnyLength(row) == TRUE

\* WHERE ... AND LENGTH(value) > 100
LongEnough(row) == row.len > Threshold

\* The rowids a query selects, ascending
Rowids(rows, selected) ==
    SelectSeq([i \in 1..Len(rows) |-> i], LAMBDA i : rows[i] \in selected)

\* The rows of the table, as the set a WHERE clause selects from
Table(rows) == {rows[i] : i \in 1..Len(rows)}

\* The same query without the length condition
FetchOneOfAnyLength(rows, key) ==
    LET ids == Rowids(rows, {r \in Table(rows) : r.key = key})
    IN IF ids = <<>> THEN <<>> ELSE <<ids[1]>>

\* SELECT ... WHERE key = ? AND LENGTH(value) > 100, then fetchone()
FetchOne(rows, key) ==
    LET ids == Rowids(rows, {r \in Table(rows) : r.key = key /\ LongEnough(r)})
    IN IF ids = <<>> THEN <<>> ELSE <<ids[1]>>

\* The same query without the dialog in the key pattern
FetchRowsOfAnyDialog(rows, cid) ==
    Rowids(rows, {r \in Table(rows) : r.key.k = "bubbleId" /\ LongEnough(r)})

\* SELECT ... WHERE key LIKE 'bubbleId:<cid>:%' AND LENGTH(value) > 100
\* ORDER BY rowid, then fetchall()
FetchDialogRows(rows, cid) ==
    Rowids(rows,
        {r \in Table(rows) :
            r.key.k = "bubbleId" /\ r.key.cid = cid /\ LongEnough(r)})

-----------------------------------------------------------------------------
(* Project layouts: cursor_chronicle/messages.py *)

ParseFail == [ok |-> FALSE]
Parsed(v, rest) == [ok |-> TRUE, val |-> v, rest |-> rest]
Punctuation == {"{", "}", ":", ",", "null", "0"}

\* json.loads of a layout written as a string, token by token:
\* value := null | 0 | {} | { key : value (, key : value)* }
RECURSIVE ParseValue(_), ParseMembers(_, _)
ParseValue(toks) ==
    IF toks = <<>> THEN ParseFail
    ELSE IF Head(toks) = "null" THEN Parsed(JNull, Tail(toks))
    ELSE IF Head(toks) = "0" THEN Parsed(JNum(0), Tail(toks))
    ELSE IF Head(toks) = "{"
         THEN IF Len(toks) >= 2 /\ toks[2] = "}"
              THEN Parsed(JODict(<<>>), SubSeq(toks, 3, Len(toks)))
              ELSE ParseMembers(Tail(toks), <<>>)
         ELSE ParseFail

ParseMembers(toks, acc) ==
    IF Len(toks) < 3 \/ toks[1] \in Punctuation \/ toks[2] /= ":"
    THEN ParseFail
    ELSE LET v == ParseValue(SubSeq(toks, 3, Len(toks)))
         IN IF ~v.ok \/ v.rest = <<>> THEN ParseFail
            ELSE LET acc2 == Append(acc, [k |-> toks[1], v |-> v.val])
                 IN IF Head(v.rest) = "}" THEN Parsed(JODict(acc2), Tail(v.rest))
                    ELSE IF Head(v.rest) = ","
                         THEN ParseMembers(Tail(v.rest), acc2)
                         ELSE ParseFail

\* A parser that takes no text for JSON
NoLayoutParser(toks) == Raise("JSONDecodeError")

JsonLoadsLayout(toks) ==
    LET r == ParseValue(toks)
    IN IF r.ok /\ r.rest = <<>> THEN Ok(r.val) ELSE Raise("JSONDecodeError")

\* The key alone, whatever the directory
KeyAlone(current_path, key) == <<key>>

\* f"{current_path}/{key}" if current_path else key
JoinPath(current_path, key) ==
    IF current_path /= <<>> THEN current_path \o <<"/", key>> ELSE <<key>>

RECURSIVE LayoutFiles(_, _)
LayoutFiles(items, current_path) ==
    IF items = <<>> THEN <<>>
    ELSE LET new_path == JoinPath(current_path, Head(items).k)
             value == Head(items).v
         IN (IF value.t = "odict" THEN LayoutFiles(value.items, new_path)
             ELSE IF value.t = "null" THEN <<new_path>>
             ELSE <<>>)
            \o LayoutFiles(Tail(items), current_path)

extract_files_from_layout(layout_data, current_path) ==
    IF layout_data.t = "odict" THEN LayoutFiles(layout_data.items, current_path)
    ELSE <<>>

-----------------------------------------------------------------------------
(* extract_attached_files: cursor_chronicle/messages.py *)

RECURSIVE Flatten(_)
Flatten(ss) == IF ss = <<>> THEN <<>> ELSE Head(ss) \o Flatten(Tail(ss))

IsDict(v) == v.t = "dict"

\* d.get(key) of a dict: None when the key is missing
GetNone(d, key) ==
    LET v == Field(d, key) IN IF v.t = "absent" THEN JNull ELSE v

\* d.get(key, default)
GetOr(d, key, default) == Get(Field(d, key), default)

\* "for x in v" raises TypeError on None, a number or a boolean
NotIterable(v) == v.t \in {"null", "num", "bool"}

\* the items "for x in v" visits when v is a list
Items(v) == IF v.t = "list" THEN v.l ELSE <<>>

\* 1. Active file: the first non-empty of uri, path, filePath, file
ActiveFiles(bubble_data) ==
    LET current_file_data == GetNone(bubble_data, "currentFileLocationData")
    IN IF ~IsTruthy(current_file_data) THEN <<>>
       ELSE LET c == current_file_data.d
                file_path ==
                    OrElse(GetNone(c, "uri"),
                    OrElse(GetNone(c, "path"),
                    OrElse(GetNone(c, "filePath"), GetNone(c, "file"))))
            IN IF IsTruthy(file_path)
               THEN << [type |-> "active", path |-> file_path,
                        line |-> GetNone(c, "line"),
                        preview |-> GetNone(c, "preview")] >>
               ELSE <<>>

ProjectEntries(files) ==
    [i \in 1..Len(files) |-> [type |-> "project", path |-> JStr(files[i])]]

\* 2. Project layouts: a layout is a dict, or a string holding its JSON
LayoutEntries(layout) ==
    IF layout.t = "str"
    THEN LET layout_data == JsonLoadsLayout(layout.s)
         IN IF layout_data.status = "ok" /\ layout_data.value.t = "odict"
            THEN ProjectEntries(extract_files_from_layout(layout_data.value, <<>>))
            ELSE <<>>
    ELSE IF layout.t = "odict"
         THEN ProjectEntries(extract_files_from_layout(layout, <<>>))
         ELSE <<>>

ProjectFiles(bubble_data) ==
    LET project_layouts == Items(GetOr(bubble_data, "projectLayouts", JList(<<>>)))
    IN Flatten([i \in 1..Len(project_layouts) |-> LayoutEntries(project_layouts[i])])

\* 3. Context chunks
ContextEntry(chunk) ==
    IF IsDict(chunk) /\ IsTruthy(GetNone(chunk.d, "relativeWorkspacePath"))
    THEN << [type |-> "context",
             path |-> GetNone(chunk.d, "relativeWorkspacePath"),
             content |-> GetOr(chunk.d, "contents", JStr(<<>>)),
             line_range |-> GetNone(chunk.d, "lineRange")] >>
    ELSE <<>>

ContextFiles(bubble_data) ==
    LET context_chunks ==
            Items(GetOr(bubble_data, "codebaseContextChunks", JList(<<>>)))
    IN Flatten([i \in 1..Len(context_chunks) |-> ContextEntry(context_chunks[i])])

\* path or uri of a dict entry
PathOrUri(d) == OrElse(GetNone(d, "path"), GetNone(d, "uri"))

\* 4. Relevant files: a bare path, or a dict with path or uri
RelevantEntry(file_info) ==
    IF IsDict(file_info)
    THEN IF IsTruthy(PathOrUri(file_info.d))
         THEN << [type |-> "relevant", path |-> PathOrUri(file_info.d)] >>
         ELSE <<>>
    ELSE IF file_info.t = "str"
         THEN << [type |-> "relevant", path |-> file_info] >>
         ELSE <<>>

RelevantFiles(bubble_data) ==
    LET relevant_files == Items(GetOr(bubble_data, "relevantFiles", JList(<<>>)))
    IN Flatten([i \in 1..Len(relevant_files) |-> RelevantEntry(relevant_files[i])])

\* 5. Attached code chunks
SelectedEntry(chunk) ==
    IF IsDict(chunk) /\ IsTruthy(PathOrUri(chunk.d))
    THEN << [type |-> "selected", path |-> PathOrUri(chunk.d),
             content |-> GetOr(chunk.d, "content", JStr(<<>>)),
             selection |-> GetNone(chunk.d, "selection")] >>
    ELSE <<>>

SelectedFiles(bubble_data) ==
    LET attached_chunks ==
            Items(GetOr(bubble_data, "attachedCodeChunks", JList(<<>>)))
    IN Flatten([i \in 1..Len(attached_chunks) |-> SelectedEntry(attached_chunks[i])])

\* 6. File selections of the context
SelectionEntry(selection) ==
    IF IsDict(selection) /\ IsTruthy(PathOrUri(selection.d))
    THEN << [type |-> "selected_context", path |-> PathOrUri(selection.d),
             selection |-> GetNone(selection.d, "selection")] >>
    ELSE <<>>

ContextSelections(bubble_data) ==
    LET context == GetOr(bubble_data, "context", JDict(<<>>))
    IN IF IsDict(context)
       THEN LET file_selections ==
                    Items(GetOr(context.d, "fileSelections", JList(<<>>)))
            IN Flatten([i \in 1..Len(file_selections) |->
                            SelectionEntry(file_selections[i])])
       ELSE <<>>

\* The exception extract_attached_files raises, "" when it returns
ExtractError(bubble_data) ==
    LET current_file_data == GetNone(bubble_data, "currentFileLocationData")
        context == GetOr(bubble_data, "context", JDict(<<>>))
    IN IF IsTruthy(current_file_data) /\ ~IsDict(current_file_data)
       THEN "AttributeError"
       ELSE IF \/ NotIterable(GetOr(bubble_data, "projectLayouts", JList(<<>>)))
               \/ NotIterable(GetOr(bubble_data, "codebaseContextChunks", JList(<<>>)))
               \/ NotIterable(GetOr(bubble_data, "relevantFiles", JList(<<>>)))
               \/ NotIterable(GetOr(bubble_data, "attachedCodeChunks", JList(<<>>)))
               \/ /\ IsDict(context)
                  /\ NotIterable(GetOr(context.d, "fileSelections", JList(<<>>)))
            THEN "TypeError"
            ELSE ""

\* The same references, one for each path: a path is kept the first time
ExtractDistinctPaths(bubble_data) ==
    LET all == ActiveFiles(bubble_data) \o ProjectFiles(bubble_data)
                   \o ContextFiles(bubble_data) \o RelevantFiles(bubble_data)
                   \o SelectedFiles(bubble_data) \o ContextSelections(bubble_data)
        kept == SelectSeq([i \in 1..Len(all) |-> i],
                          LAMBDA i : \A j \in 1..(i - 1) : all[j].path /= all[i].path)
    IN [k \in 1..Len(kept) |-> all[kept[k]]]

extract_attached_files(bubble_data) ==
    ActiveFiles(bubble_data) \o ProjectFiles(bubble_data)
        \o ContextFiles(bubble_data) \o RelevantFiles(bubble_data)
        \o SelectedFiles(bubble_data) \o ContextSelections(bubble_data)

-----------------------------------------------------------------------------
(* get_dialog_messages: cursor_chronicle/messages.py *)

AVSoXO == <<"A", "V", "S", "o", "X", "O">>

\* A decoding that turns every string into text
DecodesToText(s) == Ok(<<"t">>)

\* base64.b64decode(s).decode("utf-8") of a string that starts with AVSoXO:
\* "AVSo" decodes to the bytes 01 54 A8, and A8 starts no UTF-8 character,
\* so the call raises (binascii.Error when the padding is wrong,
\* UnicodeDecodeError otherwise) whatever follows the prefix.
Base64DecodeUtf8(s) == Raise("UnicodeDecodeError")

\* The same fields, the signature first
SignatureFirst(d) ==
    OrElse(GetNone(d, "signature"),
    OrElse(GetNone(d, "thinking"),
    OrElse(GetNone(d, "text"),
    OrElse(GetNone(d, "content"), JStr(<<>>)))))

\* content or text or thinking or signature or ""
ThinkingField(d) ==
    OrElse(GetNone(d, "content"),
    OrElse(GetNone(d, "text"),
    OrElse(GetNone(d, "thinking"),
    OrElse(GetNone(d, "signature"), JStr(<<>>)))))

\* The same without the except clause around the decoding
ExtractWithoutFallback(thinking_data) ==
    IF ~IsTruthy(thinking_data) THEN Ok(JStr(<<>>))
    ELSE IF IsDict(thinking_data)
         THEN LET thinking_content == ThinkingField(thinking_data.d)
              IN IF ~IsTruthy(thinking_content) THEN Ok(thinking_content)
                 ELSE IF thinking_content.t /= "str" THEN Raise("AttributeError")
                 ELSE IF StartsWith(thinking_content.s, AVSoXO)
                      THEN Base64DecodeUtf8(thinking_content.s)
                      ELSE Ok(thinking_content)
         ELSE IF thinking_data.t = "str" THEN Ok(thinking_data)
         ELSE Ok(JStr(<<>>))

_extract_thinking_content(thinking_data) ==
    IF ~IsTruthy(thinking_data) THEN Ok(JStr(<<>>))
    ELSE IF IsDict(thinking_data)
         THEN LET thinking_content == ThinkingField(thinking_data.d)
              IN IF ~IsTruthy(thinking_content) THEN Ok(thinking_content)
                 ELSE IF thinking_content.t /= "str" THEN Raise("AttributeError")
                 ELSE IF StartsWith(thinking_content.s, AVSoXO)
                      THEN LET decoded == Base64DecodeUtf8(thinking_content.s)
                           IN IF decoded.status = "ok" THEN Ok(JStr(decoded.value))
                              ELSE Ok(thinking_content)
                      ELSE Ok(thinking_content)
         ELSE IF thinking_data.t = "str" THEN Ok(thinking_data)
         ELSE Ok(JStr(<<>>))

\* The bubble id a header or a key names: ids are one token long
IdOf(v) == IF v.t = "str" /\ Len(v.s) = 1 THEN v.s[1] ELSE "?"

\* [bubble["bubbleId"] for bubble in composer_data["fullConversationHeadersOnly"]]
HeaderIds(headers) ==
    IF headers.t /= "list" THEN Raise("TypeError")
    ELSE IF \E i \in 1..Len(headers.l) : ~IsDict(headers.l[i])
         THEN Raise("TypeError")
    ELSE IF \E i \in 1..Len(headers.l) :
                Field(headers.l[i].d, "bubbleId").t = "absent"
         THEN Raise("KeyError")
    ELSE Ok([i \in 1..Len(headers.l) |-> IdOf(headers.l[i].d.bubbleId)])

\* The declared order of a dialog: the composerData row, parsed.  A row
\* that is missing, too short or not JSON declares nothing.
OrderedBubbleIds(rows, composer_id) ==
    LET composer_result == FetchOne(rows, ComposerKey(composer_id))
    IN IF composer_result = <<>> THEN Ok(<<>>)
       ELSE LET loaded == JsonLoads(rows[composer_result[1]].value)
            IN IF loaded.status = "raise" THEN Ok(<<>>)
               ELSE LET composer_data == loaded.value
                    IN IF composer_data.t \in {"null", "num", "bool"}
                       THEN Raise("TypeError")
                       ELSE IF ~IsDict(composer_data) THEN Ok(<<>>)
                       ELSE IF Field(composer_data.d,
                                     "fullConversationHeadersOnly").t = "absent"
                            THEN Ok(<<>>)
                       ELSE HeaderIds(composer_data.d.fullConversationHeadersOnly)

\* The rows in rowid order, whatever order is declared
DialogRowsByRowid(rows, composer_id, ordered_bubble_ids) ==
    FetchDialogRows(rows, composer_id)

\* The rowids of the bubbles of a dialog, in the order they are decoded
DialogRows(rows, composer_id, ordered_bubble_ids) ==
    IF ordered_bubble_ids = <<>>
    THEN FetchDialogRows(rows, composer_id)
    ELSE Flatten([i \in 1..Len(ordered_bubble_ids) |->
                     FetchOne(rows, BubbleKey(composer_id, ordered_bubble_ids[i]))])

\* is_thought_bubble of a type-2 bubble without text
IsThoughtBubble(d) ==
    \/ IsTruthy(GetNone(d, "isThought"))
    \/ IsTruthy(GetNone(d, "thinking"))
    \/ IsTruthy(GetNone(d, "thinkingDurationMs"))

\* The body of the loop over the fetched rows: the message of one row,
\* "skip" for a value that is not JSON, or the exception that escapes
DecodeMessage(rowid, row) ==
    LET loaded == JsonLoads(row.value)
    IN IF loaded.status = "raise" THEN [status |-> "skip"]
       ELSE IF ~IsDict(loaded.value) THEN Raise("AttributeError")
       ELSE LET bubble_data == loaded.value.d
                raw_text == GetOr(bubble_data, "text", JStr(<<>>))
            IN IF raw_text.t /= "str" THEN Raise("AttributeError")
               ELSE IF ExtractError(bubble_data) /= ""
                    THEN Raise(ExtractError(bubble_data))
               ELSE LET text == Strip(raw_text.s)
                        bubble_type == GetNone(bubble_data, "type")
                        thinking_data == GetNone(bubble_data, "thinking")
                        is_thought ==
                            /\ bubble_type = JNum(2)
                            /\ text = <<>>
                            /\ IsThoughtBubble(bubble_data)
                        thinking == _extract_thinking_content(thinking_data)
                    IN IF is_thought /\ thinking.status = "raise" THEN thinking
                       ELSE Ok([text |-> text,
                                type |-> bubble_type,
                                bubble_id |-> GetOr(bubble_data, "bubbleId", JStr(<<>>)),
                                key |-> row.key,
                                rowid |-> rowid,
                                tool_data |-> GetNone(bubble_data, "toolFormerData"),
                                attached_files |-> extract_attached_files(bubble_data),
                                is_thought |-> is_thought,
                                thinking_duration |->
                                    IF is_thought
                                    THEN GetOr(bubble_data, "thinkingDurationMs", JNum(0))
                                    ELSE JNum(0),
                                thinking_content |->
                                    IF is_thought THEN thinking.value ELSE JStr(<<>>)])

\* for rowid, key, value in results: the first exception ends the call
RECURSIVE DecodeMessages(_, _)
DecodeMessages(rows, rowids) ==
    IF rowids = <<>> THEN Ok(<<>>)
    ELSE LET m == DecodeMessage(Head(rowids), rows[Head(rowids)])
         IN IF m.status = "raise" THEN m
            ELSE LET rest == DecodeMessages(rows, Tail(rowids))
                 IN IF rest.status = "raise" THEN rest
                    ELSE IF m.status = "skip" THEN rest
                    ELSE Ok(<<m.value>> \o rest.value)

get_dialog_messages(exists, rows, composer_id) ==
    IF ~exists THEN Raise("FileNotFoundError")
    ELSE LET ordered_bubble_ids == OrderedBubbleIds(rows, composer_id)
         IN IF ordered_bubble_ids.status = "raise" THEN ordered_bubble_ids
            ELSE DecodeMessages(rows,
                     DialogRows(rows, composer_id, ordered_bubble_ids.value))

-----------------------------------------------------------------------------
(* get_full_dialog: search_history/searcher.py *)

\* The body of the loop of get_full_dialog: a bubble with neither text nor
\* tool data is passed over
DecodeDialogEntry(row) ==
    LET loaded == JsonLoads(row.value)
    IN IF loaded.status = "raise" THEN [status |-> "skip"]
       ELSE IF ~IsDict(loaded.value) THEN Raise("AttributeError")
       ELSE LET bubble_data == loaded.value.d
                raw_text == GetOr(bubble_data, "text", JStr(<<>>))
                tool_data == GetNone(bubble_data, "toolFormerData")
            IN IF raw_text.t /= "str" THEN Raise("AttributeError")
               ELSE IF Strip(raw_text.s) = <<>> /\ ~IsTruthy(tool_data)
                    THEN [status |-> "skip"]
               ELSE Ok([bubble_id |-> GetOr(bubble_data, "bubbleId", JStr(<<>>)),
                        type |-> GetNone(bubble_data, "type"),
                        text |-> Strip(raw_text.s),
                        tool_data |-> tool_data])

RECURSIVE DecodeDialogEntries(_, _)
DecodeDialogEntries(rows, rowids) ==
    IF rowids = <<>> THEN Ok(<<>>)
    ELSE LET m == DecodeDialogEntry(rows[Head(rowids)])
         IN IF m.status = "raise" THEN m
            ELSE LET rest == DecodeDialogEntries(rows, Tail(rowids))
                 IN IF rest.status = "raise" THEN rest
                    ELSE IF m.status = "skip" THEN rest
                    ELSE Ok(<<m.value>> \o rest.value)

get_full_dialog(exists, rows, composer_id) ==
    IF ~exists THEN Ok(<<>>)
    ELSE LET ordered_bubble_ids == OrderedBubbleIds(rows, composer_id)
         IN IF ordered_bubble_ids.status = "raise" THEN ordered_bubble_ids
            ELSE DecodeDialogEntries(rows,
                     DialogRows(rows, composer_id, ordered_bubble_ids.value))

-----------------------------------------------------------------------------
(* The serialized value and the pattern: search_history/searcher.py *)

DigitChar == <<"0", "1", "2", "3", "4", "5", "6", "7", "8", "9">>

RECURSIVE Digits(_)
Digits(n) ==
    IF n < 10 THEN <<DigitChar[n + 1]>>
    ELSE Digits(n \div 10) \o <<DigitChar[(n % 10) + 1]>>

\* The keys of a dict in the order they are written
KeyOrder ==
    <<"bubbleId", "type", "text", "toolFormerData", "name", "tool", "rawArgs",
      "result", "thinking", "content", "signature", "isThought",
      "thinkingDurationMs", "relevantFiles", "fullConversationHeadersOnly", "id">>

RECURSIVE JoinWith(_, _)
JoinWith(parts, sep) ==
    IF parts = <<>> THEN <<>>
    ELSE IF Len(parts) = 1 THEN parts[1]
    ELSE parts[1] \o <<sep>> \o JoinWith(Tail(parts), sep)

\* The text of a JSON document: strings are stored as they are written, a
\* key and a punctuation mark are one element each
RECURSIVE RenderJ(_)
RenderJ(v) ==
    CASE v.t = "str" -> <<Quote>> \o v.s \o <<Quote>>
      [] v.t = "num" -> Digits(v.n)
      [] v.t = "bool" -> IF v.b THEN <<"true">> ELSE <<"false">>
      [] v.t = "null" -> <<"null">>
      [] v.t = "list" ->
            <<"[">> \o JoinWith([i \in 1..Len(v.l) |-> RenderJ(v.l[i])], ",") \o <<"]">>
      [] v.t = "dict" ->
            LET keys == SelectSeq(KeyOrder, LAMBDA k : k \in DOMAIN v.d)
            IN <<"{">>
               \o JoinWith([i \in 1..Len(keys) |->
                               <<Quote, keys[i], Quote, ":">> \o RenderJ(v.d[keys[i]])],
                           ",")
               \o <<"}">>
      [] v.t = "odict" ->
            <<"{">>
            \o JoinWith([i \in 1..Len(v.items) |->
                            <<Quote, v.items[i].k, Quote, ":">> \o RenderJ(v.items[i].v)],
                        ",")
            \o <<"}">>

\* The value column of a row, as text
RawValue(value) == IF value.json = "invalid" THEN value.raw ELSE RenderJ(value.doc)

UpperLetters ==
    <<"A", "B", "C", "D", "E", "F", "G", "H", "I", "J", "K", "L", "M",
      "N", "O", "P", "Q", "R", "S", "T", "U", "V", "W", "X", "Y", "Z">>
LowerLetters ==
    <<"a", "b", "c", "d", "e", "f", "g", "h", "i", "j", "k", "l", "m",
      "n", "o", "p", "q", "r", "s", "t", "u", "v", "w", "x", "y", "z">>

Lower(c) ==
    IF \E i \in 1..26 : UpperLetters[i] = c
    THEN LowerLetters[CHOOSE i \in 1..26 : UpperLetters[i] = c]
    ELSE c

\* str.lower()
LowerSeq(s) == [i \in 1..Len(s) |-> Lower(s[i])]

\* needle in hay
Contains(hay, needle) ==
    \E i \in 0..(Len(hay) - Len(needle)) :
        SubSeq(hay, i + 1, i + Len(needle)) = needle

\* re.compile(re.escape(query), flags).search(s): the query, taken
\* literally, occurs in s; with re.IGNORECASE letter case is ignored
PatternSearch(query, case_sensitive, s) ==
    IF case_sensitive THEN Contains(s, query)
    ELSE Contains(LowerSeq(s), LowerSeq(query))

\* "if v and pattern.search(v)": a non-empty value that is no string
\* raises TypeError
FieldOutcome(v, query, case_sensitive) ==
    IF ~IsTruthy(v) THEN "no"
    ELSE IF v.t /= "str" THEN "TypeError"
    ELSE IF PatternSearch(query, case_sensitive, v.s) THEN "match"
    ELSE "no"

\* The text of the thinking field that is searched
ThinkingText(thinking) ==
    IF IsDict(thinking)
    THEN OrElse(GetOr(thinking.d, "content", JStr(<<>>)),
                GetOr(thinking.d, "text", JStr(<<>>)))
    ELSE IF thinking.t = "str" THEN thinking
    ELSE JStr(RenderJ(thinking))

\* The four fields search_in_bubble tests, in the order it tests them:
\* the field name and the value searched
SearchedFields(bubble_data) ==
    LET tool_data == GetOr(bubble_data, "toolFormerData", JDict(<<>>))
        thinking == GetOr(bubble_data, "thinking", JDict(<<>>))
    IN << [field |-> "text", v |-> GetOr(bubble_data, "text", JStr(<<>>))] >>
       \o (IF IsTruthy(tool_data) /\ IsDict(tool_data)
           THEN << [field |-> "tool_args",
                    v |-> GetOr(tool_data.d, "rawArgs", JStr(<<>>))],
                   [field |-> "tool_result",
                    v |-> GetOr(tool_data.d, "result", JStr(<<>>))] >>
           ELSE <<>>)
       \o (IF IsTruthy(thinking)
           THEN << [field |-> "thinking", v |-> ThinkingText(thinking)] >>
           ELSE <<>>)

\* search_in_bubble: one match for each field the query occurs in
search_in_bubble(bubble_data, query, case_sensitive) ==
    LET tool_data == GetOr(bubble_data, "toolFormerData", JDict(<<>>))
        fields == SearchedFields(bubble_data)
        hits == SelectSeq(fields,
                    LAMBDA f : FieldOutcome(f.v, query, case_sensitive) = "match")
    IN IF IsTruthy(tool_data) /\ ~IsDict(tool_data) THEN Raise("AttributeError")
       ELSE IF \E i \in 1..Len(fields) :
                  FieldOutcome(fields[i].v, query, case_sensitive) = "TypeError"
            THEN Raise("TypeError")
       ELSE Ok([i \in 1..Len(hits) |->
                   [field |-> hits[i].field, content |-> hits[i].v.s]])

-----------------------------------------------------------------------------
(* search_all: search_history/searcher.py *)

\* No composer is left out, whatever the filter
NothingFilteredOut(composer, project_filter) == FALSE

\* project_filter and project_filter.lower() not in _project_name.lower()
FilteredOut(composer, project_filter) ==
    /\ project_filter /= <<>>
    /\ ~Contains(LowerSeq(composer.project_name), LowerSeq(project_filter))

\* composer_lookup: the composers the filter lets through, by id; a later
\* composer of the same id replaces an earlier one
ComposerLookup(composers, project_filter) ==
    LET kept == SelectSeq(composers, LAMBDA c : ~FilteredOut(c, project_filter))
    IN [cid \in {kept[i].composerId : i \in 1..Len(kept)} |->
           kept[CHOOSE i \in 1..Len(kept) :
                    /\ kept[i].composerId = cid
                    /\ \A j \in (i + 1)..Len(kept) : kept[j].composerId /= cid]]

\* SELECT key, value FROM cursorDiskKV
\* WHERE key LIKE 'bubbleId:%' AND LENGTH(value) > 100: a scan of the table
FetchAllBubbles(rows) ==
    Rowids(rows, {r \in Table(rows) : r.key.k = "bubbleId" /\ LongEnough(r)})

\* The raw-value check made before a row is decoded
PreCheck(query, case_sensitive, value) ==
    PatternSearch(query, case_sensitive, RawValue(value))

\* The matches of one row, each with the fields of its dialog
Annotate(matches, bubble_data, composer_id, composer) ==
    [i \in 1..Len(matches) |->
        [field |-> matches[i].field,
         content |-> matches[i].content,
         bubble_id |-> GetOr(bubble_data, "bubbleId", JStr(<<>>)),
         composer_id |-> composer_id,
         project_name |-> composer.project_name,
         dialog_name |-> composer.name,
         last_updated |-> composer.lastUpdatedAt,
         created_at |-> composer.createdAt]]

\* The loop over the scanned rows, from the rowids still to visit and the
\* matches gathered so far: a row of an unknown dialog, a row the raw check
\* rejects and a row that is not JSON are passed over; the loop ends once a
\* row with matches brings the total to the limit
RECURSIVE ScanRows(_, _, _, _, _, _, _)
ScanRows(rows, rowids, lookup, query, case_sensitive, limit, all_results) ==
    IF rowids = <<>> THEN Ok(all_results)
    ELSE LET row == rows[Head(rowids)]
             composer_id == row.key.cid
             next(acc) == ScanRows(rows, Tail(rowids), lookup, query,
                                   case_sensitive, limit, acc)
         IN IF composer_id \notin DOMAIN lookup THEN next(all_results)
            ELSE IF ~PreCheck(query, case_sensitive, row.value)
                 THEN next(all_results)
            ELSE LET loaded == JsonLoads(row.value)
                 IN IF loaded.status = "raise" THEN next(all_results)
                    ELSE IF ~IsDict(loaded.value) THEN Raise("AttributeError")
                    ELSE LET bubble_matches ==
                                 search_in_bubble(loaded.value.d, query, case_sensitive)
                         IN IF bubble_matches.status = "raise" THEN bubble_matches
                            ELSE IF bubble_matches.value = <<>>
                                 THEN next(all_results)
                            ELSE LET grown ==
                                         all_results
                                         \o Annotate(bubble_matches.value,
                                                     loaded.value.d, composer_id,
                                                     lookup[composer_id])
                                 IN IF Len(grown) >= limit THEN Ok(grown)
                                    ELSE next(grown)

\* The rows the loop takes from the cursor, each with the number of matches
\* gathered before it is taken: the loop goes on to the next row until a row
\* with matches brings the total to the limit, or a row raises
RECURSIVE ScanTrace(_, _, _, _, _, _, _)
ScanTrace(rows, rowids, lookup, query, case_sensitive, limit, gathered) ==
    IF rowids = <<>> THEN <<>>
    ELSE LET row == rows[Head(rowids)]
             here == [rowid |-> Head(rowids), gathered |-> gathered]
             next(n) == <<here>> \o ScanTrace(rows, Tail(rowids), lookup, query,
                                              case_sensitive, limit, n)
         IN IF row.key.cid \notin DOMAIN lookup THEN next(gathered)
            ELSE IF ~PreCheck(query, case_sensitive, row.value)
                 THEN next(gathered)
            ELSE LET loaded == JsonLoads(row.value)
                 IN IF loaded.status = "raise" THEN next(gathered)
                    ELSE IF ~IsDict(loaded.value) THEN <<here>>
                    ELSE LET bubble_matches ==
                                 search_in_bubble(loaded.value.d, query, case_sensitive)
                         IN IF bubble_matches.status = "raise" THEN <<here>>
                            ELSE IF bubble_matches.value = <<>> THEN next(gathered)
                            ELSE IF gathered + Len(bubble_matches.value) >= limit
                                 THEN <<here>>
                            ELSE next(gathered + Len(bubble_matches.value))

\* list.sort(key=last_updated, reverse=True): stable, so matches of equal
\* key keep the order they were found in
RECURSIVE InsertByLastUpdated(_, _)
InsertByLastUpdated(sorted, m) ==
    IF sorted = <<>> THEN <<m>>
    ELSE IF Head(sorted).last_updated >= m.last_updated
         THEN <<Head(sorted)>> \o InsertByLastUpdated(Tail(sorted), m)
         ELSE <<m>> \o sorted

\* all_results in the order the scan found them
Unsorted(ms) == ms

RECURSIVE SortByLastUpdated(_)
SortByLastUpdated(ms) ==
    IF ms = <<>> THEN <<>>
    ELSE InsertByLastUpdated(SortByLastUpdated(SubSeq(ms, 1, Len(ms) - 1)),
                             ms[Len(ms)])

\* all_results, not cut
NoTruncate(ms, limit) == ms

\* all_results[:limit], limit >= 0
Truncate(ms, limit) == SubSeq(ms, 1, IF Len(ms) < limit THEN Len(ms) ELSE limit)

search_all(exists, rows, composers, query, case_sensitive, project_filter, limit) ==
    IF ~exists THEN Ok(<<>>)
    ELSE LET scanned == ScanRows(rows, FetchAllBubbles(rows),
                                 ComposerLookup(composers, project_filter),
                                 query, case_sensitive, limit, <<>>)
         IN IF scanned.status = "raise" THEN scanned
            ELSE Ok(Truncate(SortByLastUpdated(scanned.value), limit))

-----------------------------------------------------------------------------
(* get_dialog_context: search_history/searcher.py *)

\* The position of the first occurrence of bubble_id, 0 when there is none
TargetIndex(ordered_bubble_ids, bubble_id) ==
    IF \E i \in 1..Len(ordered_bubble_ids) : ordered_bubble_ids[i] = bubble_id
    THEN CHOOSE i \in 1..Len(ordered_bubble_ids) :
            /\ ordered_bubble_ids[i] = bubble_id
            /\ \A j \in 1..(i - 1) : ordered_bubble_ids[j] /= bubble_id
    ELSE 0

Max(a, b) == IF a > b THEN a ELSE b
Min(a, b) == IF a < b THEN a ELSE b

\* Every declared id, whatever the target and the size
WholeOrder(ordered_bubble_ids, target_index, context_size) == ordered_bubble_ids

\* ordered_bubble_ids[start:end] around the target
ContextIds(ordered_bubble_ids, target_index, context_size) ==
    SubSeq(ordered_bubble_ids,
           Max(1, target_index - context_size),
           Min(Len(ordered_bubble_ids), target_index + context_size))

\* The message of one id of the window with no target flagged
ContextMessageUnflagged(rows, composer_id, bid, bubble_id) ==
    LET found == FetchOne(rows, BubbleKey(composer_id, bid))
    IN IF found = <<>> THEN [status |-> "skip"]
       ELSE LET loaded == JsonLoads(rows[found[1]].value)
            IN IF loaded.status = "raise" THEN [status |-> "skip"]
               ELSE IF ~IsDict(loaded.value) THEN Raise("AttributeError")
               ELSE Ok([bubble_id |-> bid,
                        type |-> GetNone(loaded.value.d, "type"),
                        text |-> GetOr(loaded.value.d, "text", JStr(<<>>)),
                        is_target |-> FALSE])

\* The message of one id of the window: none when the row is missing, too
\* short or not JSON
ContextMessage(rows, composer_id, bid, bubble_id) ==
    LET found == FetchOne(rows, BubbleKey(composer_id, bid))
    IN IF found = <<>> THEN [status |-> "skip"]
       ELSE LET loaded == JsonLoads(rows[found[1]].value)
            IN IF loaded.status = "raise" THEN [status |-> "skip"]
               ELSE IF ~IsDict(loaded.value) THEN Raise("AttributeError")
               ELSE Ok([bubble_id |-> bid,
                        type |-> GetNone(loaded.value.d, "type"),
                        text |-> GetOr(loaded.value.d, "text", JStr(<<>>)),
                        is_target |-> bid = bubble_id])

RECURSIVE ContextMessages(_, _, _, _)
ContextMessages(rows, composer_id, context_ids, bubble_id) ==
    IF context_ids = <<>> THEN Ok(<<>>)
    ELSE LET m == ContextMessage(rows, composer_id, Head(context_ids), bubble_id)
         IN IF m.status = "raise" THEN m
            ELSE LET rest == ContextMessages(rows, composer_id,
                                             Tail(context_ids), bubble_id)
                 IN IF rest.status = "raise" THEN rest
                    ELSE IF m.status = "skip" THEN rest
                    ELSE Ok(<<m.value>> \o rest.value)

get_dialog_context(exists, rows, composer_id, bubble_id, context_size) ==
    IF ~exists THEN Ok(<<>>)
    ELSE LET ordered_bubble_ids == OrderedBubbleIds(rows, composer_id)
         IN IF ordered_bubble_ids.status = "raise" THEN ordered_bubble_ids
            ELSE LET target_index == TargetIndex(ordered_bubble_ids.value, bubble_id)
                 IN IF target_index = 0 THEN Ok(<<>>)
                    ELSE ContextMessages(rows, composer_id,
                             ContextIds(ordered_bubble_ids.value, target_index,
                                        context_size),
                             bubble_id)

-----------------------------------------------------------------------------
(* The calls and the stores they are made on *)

Dialogs == {"d1", "d2"}

\* The bubble keys a store may hold: two bubbles of d1 and one of d2
BubbleKeys == {BubbleKey("d1", "b1"), BubbleKey("d1", "b2"), BubbleKey("d2", "c1")}

\* The ids a declared order may name: b3 has no row in the stores of Init
HeaderIdSet == {"b1", "b2", "b3"}

ShortLen == Threshold
LongLen == Threshold + 1

Json(doc) == [json |-> "ok", doc |-> doc]
\* A value that is not JSON, with the text it holds
NotJson == [json |-> "invalid", raw |-> <<"h", "i", "!">>]

Str(tok) == JStr(<<tok>>)

\* A bubble as the host writes it: a dict that names its own id
Bubble(bid, fields) == Json(JDict([bubbleId |-> Str(bid)] @@ fields))

\* The kinds of value the rows of Init hold
AssembleKinds == {"text", "blank", "tool", "invalid", "array"}

BubbleValue(kind, bid) ==
    CASE kind = "text" ->
            Bubble(bid, [type |-> JNum(1), text |-> JStr(<<"h", "i">>)])
      [] kind = "blank" ->
            Bubble(bid, [type |-> JNum(2), text |-> JStr(<<" ">>)])
      [] kind = "tool" ->
            Bubble(bid, [type |-> JNum(2), text |-> JStr(<<>>),
                         toolFormerData |->
                             JDict([name |-> Str("read_file"), tool |-> JNum(5)])])
      [] kind = "thought" ->
            Bubble(bid, [type |-> JNum(2), text |-> JStr(<<>>),
                         isThought |-> JBool(TRUE),
                         thinkingDurationMs |-> JNum(3000),
                         thinking |-> JDict([signature |-> JStr(AVSoXO \o <<"x">>)])])
      [] kind = "attach" ->
            Bubble(bid, [type |-> JNum(1), text |-> JStr(<<>>),
                         relevantFiles |-> JList(<<Str("a.py")>>)])
      [] kind = "invalid" -> NotJson
      [] kind = "array" -> Json(JList(<<JNum(0)>>))

\* The rows a key may hold: any kind of value longer than 100 bytes, or
\* a text bubble of exactly 100 bytes
AssembleRows(key) ==
    {[key |-> key, len |-> LongLen, value |-> BubbleValue(kind, key.bid)] :
        kind \in AssembleKinds}
    \cup {[key |-> key, len |-> ShortLen, value |-> BubbleValue("text", key.bid)]}

\* Sequences of at most n rows, no key twice
RowSeqs(rows, n) ==
    {s \in UNION {[1..m -> rows] : m \in 0..n} :
        \A i, j \in DOMAIN s : i /= j => s[i].key /= s[j].key}

\* Declared orders: at most MaxOrder ids, none twice
Orders ==
    {o \in UNION {[1..m -> HeaderIdSet] : m \in 0..MaxOrder} :
        \A i, j \in DOMAIN o : i /= j => o[i] /= o[j]}

Headers(order) ==
    JList([i \in 1..Len(order) |-> JDict([bubbleId |-> Str(order[i])])])

ComposerData(order) == Json(JDict([fullConversationHeadersOnly |-> Headers(order)]))

\* composerData rows of d1: a declared order in a row longer than 100 bytes,
\* the order [b2, b1] in the 69 bytes its JSON takes, and rows that are
\* not JSON or not of the expected shape
MetaRows ==
    {[key |-> ComposerKey("d1"), len |-> LongLen, value |-> ComposerData(o)] :
        o \in Orders}
    \cup {[key |-> ComposerKey("d1"), len |-> 69,
           value |-> ComposerData(<<"b2", "b1">>)]}
    \cup {[key |-> ComposerKey("d1"), len |-> LongLen, value |-> v] :
            v \in {NotJson,
                   Json(JDict([name |-> Str("chat")])),
                   Json(JDict([fullConversationHeadersOnly |-> JNull])),
                   Json(JDict([fullConversationHeadersOnly |->
                                   JList(<<JDict([id |-> Str("b1")])>>)])),
                   Json(JList(<<JNum(0)>>))}}

NoCall == [op |-> "none"]

Chars(tok) == <<tok>>

\* The composers of the workspace tables: d1 of project Web, d2 of project
\* api, d2 the more recently updated
Composer(cid, project, updated) ==
    [composerId |-> cid, project_name |-> project, name |-> Chars(cid),
     lastUpdatedAt |-> updated, createdAt |-> 1]

BothComposers ==
    << Composer("d1", <<"W", "e", "b">>, 1), Composer("d2", <<"a", "p", "i">>, 2) >>

\* Without the database file there is no table; with it, the table holds
\* at most one composerData row and at most MaxRows bubble rows
Init ==
    /\ workspace = BothComposers
    /\ result = NoCall
    /\ \/ /\ dbExists = FALSE
          /\ store = <<>>
       \/ /\ dbExists = TRUE
          /\ \E meta \in {<<>>} \cup {<<m>> : m \in MetaRows} :
                \E bubbles \in RowSeqs(UNION {AssembleRows(k) : k \in BubbleKeys},
                                        MaxRows) :
                    store = meta \o bubbles

\* The call, were it to delete the rows of the dialog it read
GetDialogMessagesTakingRows(composer_id) ==
    /\ result' = [op |-> "get_dialog_messages", composer_id |-> composer_id,
                  out |-> get_dialog_messages(dbExists, store, composer_id)]
    /\ store' = SelectSeq(store, LAMBDA r : r.key.cid /= composer_id)
    /\ UNCHANGED <<dbExists, workspace>>

\* get_dialog_messages(composer_id): SELECT statements only
GetDialogMessages(composer_id) ==
    /\ result' = [op |-> "get_dialog_messages", composer_id |-> composer_id,
                  out |-> get_dialog_messages(dbExists, store, composer_id)]
    /\ UNCHANGED <<dbExists, store, workspace>>

GetFullDialog(composer_id) ==
    /\ result' = [op |-> "get_full_dialog", composer_id |-> composer_id,
                  out |-> get_full_dialog(dbExists, store, composer_id)]
    /\ UNCHANGED <<dbExists, store, workspace>>

SearchAll(query, case_sensitive, project_filter, limit) ==
    /\ result' = [op |-> "search_all", query |-> query,
                  case_sensitive |-> case_sensitive,
                  project_filter |-> project_filter, limit |-> limit,
                  out |-> search_all(dbExists, store, workspace, query,
                                     case_sensitive, project_filter, limit)]
    /\ UNCHANGED <<dbExists, store, workspace>>

GetDialogContext(composer_id, bubble_id, context_size) ==
    /\ result' = [op |-> "get_dialog_context", composer_id |-> composer_id,
                  bubble_id |-> bubble_id, context_size |-> context_size,
                  out |-> get_dialog_context(dbExists, store, composer_id,
                                             bubble_id, context_size)]
    /\ UNCHANGED <<dbExists, store, workspace>>

\* Every call, on the stores of Init: the assembly of either dialog, a
\* search for "h" and the window around b1
Next ==
    \/ \E composer_id \in Dialogs : GetDialogMessages(composer_id)
    \/ \E composer_id \in Dialogs : GetFullDialog(composer_id)
    \/ SearchAll(<<"h">>, FALSE, <<>>, MaxLimit)
    \/ GetDialogContext("d1", "b1", 1)

Spec == Init /\ [][Next]_vars

-----------------------------------------------------------------------------
(* Searches, one to a store *)

SearchKinds == {"hi", "HI", "quote", "args", "thinking", "invalid", "array"}

SearchValue(kind, bid) ==
    CASE kind = "hi" ->
            Bubble(bid, [type |-> JNum(1), text |-> JStr(<<"h", "i">>)])
      [] kind = "HI" ->
            Bubble(bid, [type |-> JNum(1), text |-> JStr(<<"H", "I">>)])
      [] kind = "quote" ->
            \* the text hi" as JSON writes it
            Bubble(bid, [type |-> JNum(1),
                         text |-> JStr(<<"h", "i", Backslash, Quote>>)])
      [] kind = "args" ->
            Bubble(bid, [type |-> JNum(2), text |-> JStr(<<>>),
                         toolFormerData |->
                             JDict([name |-> Str("read_file"),
                                    rawArgs |-> JStr(<<"h", "i">>),
                                    result |-> JStr(<<"H", "I">>)])])
      [] kind = "thinking" ->
            Bubble(bid, [type |-> JNum(2), text |-> JStr(<<>>),
                         thinking |-> JDict([content |-> JStr(<<"h", "i">>)])])
      [] kind = "invalid" -> NotJson
      [] kind = "array" ->
            \* JSON that is no object: ["hi"]
            Json(JList(<<JStr(<<"h", "i">>)>>))

SearchRows(key) ==
    {[key |-> key, len |-> LongLen, value |-> SearchValue(kind, key.bid)] :
        kind \in SearchKinds}
    \cup {[key |-> key, len |-> ShortLen, value |-> SearchValue("hi", key.bid)]}

Queries == {<<"h">>, <<"H", "I">>, <<"i", Quote>>}

ProjectFilters == {<<>>, <<"w", "e">>}

\* A search still to be made
Requests ==
    [op : {"request"}, query : Queries, case_sensitive : BOOLEAN,
     project_filter : ProjectFilters, limit : 0..MaxLimit]

InitSearch ==
    /\ workspace = BothComposers
    /\ dbExists = TRUE
    /\ store \in RowSeqs(UNION {SearchRows(k) : k \in BubbleKeys}, MaxRows)
    /\ result \in Requests

NextSearch ==
    /\ result.op = "request"
    /\ SearchAll(result.query, result.case_sensitive, result.project_filter,
                 result.limit)

SpecSearch == InitSearch /\ [][NextSearch]_vars

-----------------------------------------------------------------------------
(* The context windows *)

\* Declared orders of at most MaxHeaders ids; an id may come twice
ContextOrders == UNION {[1..m -> HeaderIdSet] : m \in 0..MaxHeaders}

ContextMetaRows ==
    MetaRows
    \cup {[key |-> ComposerKey("d1"), len |-> LongLen, value |-> ComposerData(o)] :
            o \in ContextOrders}

ContextKinds == {"text", "invalid", "array"}

ContextRows(key) ==
    {[key |-> key, len |-> LongLen, value |-> BubbleValue(kind, key.bid)] :
        kind \in ContextKinds}
    \cup {[key |-> key, len |-> ShortLen, value |-> BubbleValue("text", key.bid)]}

\* No row, or one row of the set
OneOrNone(rows) == {<<>>} \cup {<<r>> : r \in rows}

ContextRequests ==
    [op : {"request"}, composer_id : {"d1"}, bubble_id : HeaderIdSet,
     context_size : 0..MaxRadius]

\* The table holds at most one composerData row of d1 and at most one row
\* for each of b1, b2 and b3
InitContext ==
    /\ workspace = BothComposers
    /\ dbExists = TRUE
    /\ \E meta \in OneOrNone(ContextMetaRows) :
          \E r1 \in OneOrNone(ContextRows(BubbleKey("d1", "b1"))) :
             \E r2 \in OneOrNone(ContextRows(BubbleKey("d1", "b2"))) :
                \E r3 \in OneOrNone(ContextRows(BubbleKey("d1", "b3"))) :
                    store = meta \o r1 \o r2 \o r3
    /\ result \in ContextRequests

NextContext ==
    /\ result.op = "request"
    /\ GetDialogContext(result.composer_id, result.bubble_id, result.context_size)

SpecContext == InitContext /\ [][NextContext]_vars

-----------------------------------------------------------------------------
(* The decoding of one bubble *)

\* A dict of the fields that are there
Opt(fields) ==
    JDict([k \in {f \in DOMAIN fields : fields[f].t /= "absent"} |-> fields[k]])

\* A dict of one field
One(key, v) == JDict([k \in {key} |-> v])

Paths == {"a.py", "b.py"}

\* Sequences of distinct keys
KeySeqs(keys) ==
    {ks \in UNION {[1..n -> keys] : n \in 0..Cardinality(keys)} :
        \A i, j \in DOMAIN ks : i /= j => ks[i] /= ks[j]}

\* The layouts whose keys are src and a.py and whose values are of a set
TreesOf(values) ==
    UNION {{JODict([i \in 1..Len(ks) |-> [k |-> ks[i], v |-> vs[i]]]) :
               vs \in [1..Len(ks) -> values]} : ks \in KeySeqs({"src", "a.py"})}

\* Directories of files (null) and directories, depth levels deep
RECURSIVE Subtrees(_)
Subtrees(depth) ==
    IF depth = 0 THEN {} ELSE TreesOf({JNull} \cup Subtrees(depth - 1))

\* Project layouts: at the top, a value may also be one that is neither a
\* file nor a directory
LayoutValues == {JNull, JNum(0)} \cup Subtrees(MaxDepth - 1)

Trees == TreesOf(LayoutValues)

\* json.dumps(layout), in the tokens JsonLoadsLayout reads
RECURSIVE DumpsLayout(_)
DumpsLayout(v) ==
    CASE v.t = "null" -> <<"null">>
      [] v.t = "num" -> Digits(v.n)
      [] v.t = "odict" ->
            <<"{">>
            \o JoinWith([i \in 1..Len(v.items) |->
                            <<v.items[i].k, ":">> \o DumpsLayout(v.items[i].v)],
                        ",")
            \o <<"}">>

\* The layout of one file
TreeOf(path) == JODict(<<[k |-> path, v |-> JNull]>>)

\* The fields of the six sources, in the order they are read
SourceField ==
    <<"currentFileLocationData", "projectLayouts", "codebaseContextChunks",
      "relevantFiles", "attachedCodeChunks", "context">>

\* The values of the field of source n that name one path
SourceValues(n, path) ==
    CASE n = 1 -> {One(f, Str(path)) : f \in {"uri", "path", "filePath", "file"}}
      [] n = 2 -> {JList(<<TreeOf(path)>>),
                   JList(<<JStr(DumpsLayout(TreeOf(path)))>>)}
      [] n = 3 -> {JList(<<One("relativeWorkspacePath", Str(path))>>)}
      [] n = 4 -> {JList(<<Str(path)>>)}
                  \cup {JList(<<One(f, Str(path))>>) : f \in {"path", "uri"}}
      [] n = 5 -> {JList(<<One(f, Str(path))>>) : f \in {"path", "uri"}}
      [] n = 6 -> {One("fileSelections", JList(<<One(f, Str(path))>>)) :
                      f \in {"path", "uri"}}

\* A source is missing, or names one path
Sources(n) == {JAbsent} \cup UNION {SourceValues(n, path) : path \in Paths}

AttachmentDocs ==
    {Opt([bubbleId |-> Str("b1"), type |-> JNum(1), text |-> JStr(<<>>),
          currentFileLocationData |-> s1, projectLayouts |-> s2,
          codebaseContextChunks |-> s3, relevantFiles |-> s4,
          attachedCodeChunks |-> s5, context |-> s6]) :
        s1 \in Sources(1), s2 \in Sources(2), s3 \in Sources(3),
        s4 \in Sources(4), s5 \in Sources(5), s6 \in Sources(6)}

\* One layout, as a dict or as the string of its JSON
LayoutDocs ==
    {Opt([bubbleId |-> Str("b1"), type |-> JNum(1), text |-> JStr(<<>>),
          projectLayouts |-> JList(<<layout>>)]) :
        layout \in Trees \cup {JStr(DumpsLayout(t)) : t \in Trees}}

Plain == JStr(<<"o", "k">>)
Signature == JStr(AVSoXO \o <<"x">>)

ThinkingPayloads ==
    {Opt([content |-> c, text |-> t, thinking |-> k, signature |-> g]) :
        c \in {JAbsent, JStr(<<>>), Plain, Signature, JNum(7)},
        t \in {JAbsent, Plain}, k \in {JAbsent, Plain},
        g \in {JAbsent, Plain, Signature}}

ThinkingDocs ==
    {Opt([bubbleId |-> Str("b1"), type |-> ty, text |-> tx, isThought |-> it,
          thinkingDurationMs |-> du, thinking |-> th]) :
        ty \in {JNum(1), JNum(2)},
        tx \in {JStr(<<>>), JStr(<<" ">>), JStr(<<"h", "i">>)},
        it \in {JAbsent, JBool(TRUE), JBool(FALSE)},
        du \in {JAbsent, JNum(0), JNum(3000)},
        th \in {JAbsent, JNull, Plain, Signature} \cup ThinkingPayloads}

\* The table holds one bubble of d1, longer than 100 bytes
InitDecode ==
    /\ workspace = BothComposers
    /\ dbExists = TRUE
    /\ result = NoCall
    /\ \E doc \in AttachmentDocs \cup LayoutDocs \cup ThinkingDocs :
          store = <<[key |-> BubbleKey("d1", "b1"), len |-> LongLen,
                     value |-> Json(doc)]>>

\* extract_attached_files(bubble_data) of the first row of the table
ExtractAttachedFiles ==
    /\ store /= <<>>
    /\ LET loaded == JsonLoads(store[1].value)
       IN /\ loaded.status = "ok"
          /\ IsDict(loaded.value)
          /\ result' = [op |-> "extract_attached_files",
                        out |-> IF ExtractError(loaded.value.d) /= ""
                                THEN Raise(ExtractError(loaded.value.d))
                                ELSE Ok(extract_attached_files(loaded.value.d))]
    /\ UNCHANGED <<dbExists, store, workspace>>

NextDecode ==
    \/ GetDialogMessages("d1")
    \/ ExtractAttachedFiles

SpecDecode == InitDecode /\ [][NextDecode]_vars

-----------------------------------------------------------------------------
(* The matching of one bubble *)

Hi == JStr(<<"h", "i">>)

\* The tool data of a bubble: none, or a call with some of rawArgs (a
\* string, or a dict as format_tool_call also accepts) and result
MatchTools ==
    {JAbsent}
    \cup {Opt([name |-> Str("read_file"), rawArgs |-> a, result |-> r]) :
            a \in {JAbsent, Hi, JStr(<<"z">>), JDict([id |-> Hi])},
            r \in {JAbsent, Hi, JStr(<<"H", "I">>)}}

\* The thinking payload of a bubble
MatchThinkings ==
    {JAbsent, Hi,
     JDict([content |-> Hi]),
     JDict([content |-> JStr(<<>>), text |-> Hi]),
     JDict([signature |-> Hi])}

MatchDocs ==
    {Opt([bubbleId |-> Str("b1"), type |-> JNum(2), text |-> tx,
          toolFormerData |-> tool, thinking |-> th]) :
        tx \in {JStr(<<>>), Hi, JStr(<<"H", "I">>)},
        tool \in MatchTools, th \in MatchThinkings}

\* The table holds one bubble of d1, longer than 100 bytes; the search is
\* still to be made
InitMatch ==
    /\ workspace = BothComposers
    /\ dbExists = TRUE
    /\ result \in Requests
    /\ \E doc \in MatchDocs :
          store = <<[key |-> BubbleKey("d1", "b1"), len |-> LongLen,
                     value |-> Json(doc)]>>

\* search_in_bubble(bubble_data, query, case_sensitive) of the first row,
\* decoded
SearchInBubble ==
    /\ result.op = "request"
    /\ store /= <<>>
    /\ LET loaded == JsonLoads(store[1].value)
       IN /\ loaded.status = "ok"
          /\ IsDict(loaded.value)
          /\ result' = [op |-> "search_in_bubble", query |-> result.query,
                        case_sensitive |-> result.case_sensitive,
                        out |-> search_in_bubble(loaded.value.d, result.query,
                                                 result.case_sensitive)]
    /\ UNCHANGED <<dbExists, store, workspace>>

NextMatch ==
    \/ SearchInBubble
    \/ NextSearch

SpecMatch == InitMatch /\ [][NextMatch]_vars

-----------------------------------------------------------------------------
(* The rendering of a tool call: cursor_chronicle/formatters.py, exporter.py *)

\* TOOL_TYPES: the names of the tool codes
TOOL_TYPES ==
    (1 :> "Codebase Search") @@ (3 :> "Grep Search") @@ (5 :> "Read File")
    @@ (6 :> "List Directory") @@ (7 :> "Edit File") @@ (8 :> "File Search")
    @@ (9 :> "Codebase Search") @@ (11 :> "Delete File") @@ (12 :> "Reapply")
    @@ (15 :> "Terminal Command") @@ (16 :> "Fetch Rules")
    @@ (18 :> "Web Search") @@ (19 :> "MCP Tool")

VERBOSITY_COMPACT == 1
VERBOSITY_STANDARD == 2
VERBOSITY_FULL == 3

\* isinstance(v, int): a JSON integer, or a boolean (bool is an int)
IsInt(v) == v.t \in {"num", "bool"}

\* The integer an int compares and hashes as
IntOf(v) == IF v.t = "bool" THEN (IF v.b THEN 1 ELSE 0) ELSE v.n

\* str(v), as an f-string writes v
StrOf(v) ==
    CASE v.t = "str" -> v.s
      [] v.t = "num" -> Digits(v.n)
      [] v.t = "bool" -> IF v.b THEN <<"True">> ELSE <<"False">>
      [] OTHER -> <<"None">>

\* not tool_data or (tool_data.get("tool") is None and not
\* tool_data.get("name")): nothing is rendered
NothingToRender(tool_data) ==
    \/ ~IsTruthy(tool_data)
    \/ /\ GetNone(tool_data.d, "tool").t = "null"
       /\ ~IsTruthy(GetNone(tool_data.d, "name"))

\* tool_icon of format_tool_call: the name of a known code, the number of
\* any other integer, "Unknown Tool" otherwise
ToolIcon(tool_type) ==
    IF IsInt(tool_type) /\ IntOf(tool_type) \in DOMAIN TOOL_TYPES
    THEN <<TOOL_TYPES[IntOf(tool_type)]>>
    ELSE IF IsInt(tool_type) THEN <<"Tool">> \o StrOf(tool_type)
    ELSE <<"Unknown Tool">>

\* tool_icon of _format_tool_call_md: the name of a known code, "Unknown
\* Tool" otherwise
ToolIconMd(tool_type) ==
    IF IsInt(tool_type) /\ IntOf(tool_type) \in DOMAIN TOOL_TYPES
    THEN <<TOOL_TYPES[IntOf(tool_type)]>>
    ELSE <<"Unknown Tool">>

\* The line of the user's decision, when there is one
DecisionLines(tool_data) ==
    LET user_decision == GetOr(tool_data, "userDecision", JStr(<<"unknown">>))
    IN IF user_decision = JStr(<<"unknown">>) THEN <<>>
       ELSE << <<"Decision:",
                 IF user_decision = JStr(<<"accepted">>) THEN "yes" ELSE "no">>
               \o StrOf(user_decision) >>

\* format_tool_call(tool_data) of a tool call without rawArgs and result:
\* the lines of the text returned, none for the empty string
format_tool_call(tool_data) ==
    IF tool_data.t \notin {"absent", "null", "dict"} /\ IsTruthy(tool_data)
    THEN Raise("AttributeError")
    ELSE IF NothingToRender(tool_data) THEN Ok(<<>>)
    ELSE LET d == tool_data.d
         IN Ok(<< <<"TOOL:">> \o ToolIcon(GetNone(d, "tool")),
                  <<"Name:">> \o StrOf(GetOr(d, "name", JStr(<<"unknown">>))),
                  <<"Status:">> \o StrOf(GetOr(d, "status", JStr(<<"unknown">>))) >>
               \o DecisionLines(d))

\* _format_tool_call_md(tool_data, verbosity) of a tool call without
\* rawArgs and result
_format_tool_call_md(tool_data, verbosity) ==
    IF tool_data.t \notin {"absent", "null", "dict"} /\ IsTruthy(tool_data)
    THEN Raise("AttributeError")
    ELSE IF NothingToRender(tool_data) THEN Ok(<<>>)
    ELSE LET d == tool_data.d
             tool_icon == ToolIconMd(GetNone(d, "tool"))
             tool_name == StrOf(GetOr(d, "name", JStr(<<"unknown">>)))
             status == StrOf(GetOr(d, "status", JStr(<<"unknown">>)))
         IN IF verbosity = VERBOSITY_COMPACT
            THEN Ok(<< <<"Tool:">> \o tool_icon \o <<"-">> \o tool_name
                       \o <<"(">> \o status \o <<")">> >>)
            ELSE Ok(<< <<"Tool:">> \o tool_icon,
                       <<"Name:">> \o tool_name,
                       <<"Status:">> \o status >>
                    \o DecisionLines(d))

\* The tool calls a bubble may hold: no tool data, an empty one, or one
\* with some of tool, name, status and userDecision
ToolCodes == {JNum(n) : n \in 0..MaxCode}

ToolDatas ==
    {JAbsent, JNull}
    \cup {Opt([tool |-> tool, name |-> name, status |-> status,
               userDecision |-> decision]) :
            tool \in {JAbsent, JNull, JBool(TRUE), JBool(FALSE), Str("edit")}
                     \cup ToolCodes,
            name \in {JAbsent, JNull, JStr(<<>>), Str("read_file")},
            status \in {JAbsent, Str("completed")},
            decision \in {JAbsent, Str("accepted"), Str("rejected")}}

ToolTexts == {JStr(<<>>), JStr(<<"h", "i">>)}

\* The table holds one assistant bubble of d1, longer than 100 bytes
InitTools ==
    /\ workspace = BothComposers
    /\ dbExists = TRUE
    /\ result = NoCall
    /\ \E tool_data \in ToolDatas, text \in ToolTexts :
          store = <<[key |-> BubbleKey("d1", "b1"), len |-> LongLen,
                     value |-> Json(Opt([bubbleId |-> Str("b1"),
                                         type |-> JNum(2), text |-> text,
                                         toolFormerData |-> tool_data]))]>>

\* The tool data of the message of the first row
\* (message["tool_data"] = bubble_data.get("toolFormerData"))
ToolDataOf(rows) == GetNone(JsonLoads(rows[1].value).value.d, "toolFormerData")

\* format_tool_call(message["tool_data"]) of the message of the first row
FormatToolCall ==
    /\ store /= <<>>
    /\ result' = [op |-> "format_tool_call",
                  out |-> format_tool_call(ToolDataOf(store))]
    /\ UNCHANGED <<dbExists, store, workspace>>

\* _format_tool_call_md(message["tool_data"], verbosity)
FormatToolCallMd(verbosity) ==
    /\ store /= <<>>
    /\ result' = [op |-> "_format_tool_call_md", verbosity |-> verbosity,
                  out |-> _format_tool_call_md(ToolDataOf(store), verbosity)]
    /\ UNCHANGED <<dbExists, store, workspace>>

NextTools ==
    \/ FormatToolCall
    \/ \E verbosity \in {VERBOSITY_COMPACT, VERBOSITY_STANDARD, VERBOSITY_FULL} :
          FormatToolCallMd(verbosity)
    \/ GetDialogMessages("d1")
    \/ GetFullDialog("d1")

SpecTools == InitTools /\ [][NextTools]_vars

-----------------------------------------------------------------------------
(* What the store holds, read off the rows themselves *)

Calls ==
    {"get_dialog_messages", "get_full_dialog", "search_all", "get_dialog_context",
     "extract_attached_files", "format_tool_call", "_format_tool_call_md",
     "search_in_bubble"}

IsCall(op) == result.op = op

Returned == result.op \in Calls /\ result.out.status = "ok"

Raised == result.op \in Calls /\ result.out.status = "raise"

\* The composerData rows of a dialog
MetaOf(composer_id) ==
    {i \in 1..Len(store) : store[i].key = ComposerKey(composer_id)}

\* The value is JSON for a dict whose fullConversationHeadersOnly is a list
\* of dicts that each name a bubbleId
DeclaresOrder(value) ==
    /\ value.json = "ok"
    /\ value.doc.t = "dict"
    /\ "fullConversationHeadersOnly" \in DOMAIN value.doc.d
    /\ value.doc.d.fullConversationHeadersOnly.t = "list"
    /\ \A i \in 1..Len(value.doc.d.fullConversationHeadersOnly.l) :
          LET entry == value.doc.d.fullConversationHeadersOnly.l[i]
          IN entry.t = "dict" /\ "bubbleId" \in DOMAIN entry.d

DeclaredIds(value) ==
    LET headers == value.doc.d.fullConversationHeadersOnly.l
    IN [i \in 1..Len(headers) |-> headers[i].d.bubbleId.s[1]]

\* The rowids of the bubble rows keyed under a dialog, ascending
BubbleRowsOf(composer_id) ==
    SelectSeq([i \in 1..Len(store) |-> i],
              LAMBDA i : store[i].key.k = "bubbleId" /\ store[i].key.cid = composer_id)

HasRecord(composer_id, bid) ==
    \E i \in 1..Len(store) : store[i].key = BubbleKey(composer_id, bid)

\* A row the store's conventions let through: longer than 100 bytes, and JSON
Usable(row) == row.len > Threshold /\ row.value.json = "ok"

HasUsableRecord(composer_id, bid) ==
    \E i \in 1..Len(store) :
        store[i].key = BubbleKey(composer_id, bid) /\ Usable(store[i])

\* A usable row whose JSON is not a dict: no message can be made of it
Undecodable(row) == Usable(row) /\ row.value.doc.t /= "dict"

BidsOf(messages) == [i \in 1..Len(messages) |-> messages[i].key.bid]
RowidsOf(messages) == [i \in 1..Len(messages) |-> messages[i].rowid]
BubbleIdsOf(messages) == [i \in 1..Len(messages) |-> IdOf(messages[i].bubble_id)]

-----------------------------------------------------------------------------
(* C1 *)

\* The dialog of the last call has a composerData row, longer than 100
\* bytes, that declares a non-empty order
LongOrderDeclared ==
    \E i \in MetaOf(result.composer_id) :
        /\ store[i].len > Threshold
        /\ DeclaresOrder(store[i].value)
        /\ DeclaredIds(store[i].value) /= <<>>

OrderOfCall ==
    DeclaredIds(store[CHOOSE i \in MetaOf(result.composer_id) : TRUE].value)

-----------------------------------------------------------------------------
(* C2 *)

\* The dialog of the last call has no composerData row, or one that is
\* JSON for a dict without fullConversationHeadersOnly
NoOrderDeclared ==
    \A i \in MetaOf(result.composer_id) :
        /\ store[i].value.json = "ok"
        /\ store[i].value.doc.t = "dict"
        /\ "fullConversationHeadersOnly" \notin DOMAIN store[i].value.doc.d

-----------------------------------------------------------------------------
(* C3 *)

\* The example: composerData of d1 declares [b2, b1] in a row of no more
\* than 100 bytes; b1 and b2 are text bubbles longer than 100 bytes
ExampleStore ==
    /\ \E i \in MetaOf("d1") :
          /\ store[i].len <= Threshold
          /\ DeclaresOrder(store[i].value)
          /\ DeclaredIds(store[i].value) = <<"b2", "b1">>
    /\ \A b \in {"b1", "b2"} :
          \E i \in 1..Len(store) :
              store[i] = [key |-> BubbleKey("d1", b), len |-> LongLen,
                          value |-> BubbleValue("text", b)]

AssemblyOfExample ==
    /\ ExampleStore
    /\ result.op \in {"get_dialog_messages", "get_full_dialog"}
    /\ result.composer_id = "d1"

\* The bubble ids of d1 in the order their rows were inserted
InsertionOrder ==
    [i \in 1..Len(BubbleRowsOf("d1")) |-> store[BubbleRowsOf("d1")[i]].key.bid]

\* C3 as claimed: the example is assembled as [b2, b1].
C3_ShortMetadataOrderApplied ==
    AssemblyOfExample
    => Returned /\ BubbleIdsOf(result.out.value) = <<"b2", "b1">>

\* C3, amended: the composerData row of the example is no longer than 100
\* bytes, so it is left out like any other short row and the example is
\* assembled in the order b1 and b2 were inserted in.
C3_ShortMetadataIgnored ==
    AssemblyOfExample
    => Returned /\ BubbleIdsOf(result.out.value) = InsertionOrder

\* The example with b1 inserted before b2, assembled as [b1, b2]
C3_Witness ==
    /\ AssemblyOfExample
    /\ Returned
    /\ BubbleIdsOf(result.out.value) = <<"b1", "b2">>

-----------------------------------------------------------------------------
(* C5 *)

\* text, or tool data, or an attached file, or a thinking bubble
Retained(message) ==
    \/ message.text /= <<>>
    \/ IsTruthy(message.tool_data)
    \/ message.attached_files /= <<>>
    \/ message.is_thought

\* C5 as claimed: every message get_dialog_messages returns has text, a
\* tool invocation, an attachment or is a thinking segment.
C5_RetentionRule ==
    (IsCall("get_dialog_messages") /\ Returned)
    => \A i \in 1..Len(result.out.value) : Retained(result.out.value[i])

-----------------------------------------------------------------------------
(* C6 *)

\* C6 as claimed: without the database file every call returns the empty
\* list and raises nothing.
C6_MissingStoreIsEmptyResult ==
    (~dbExists /\ result.op \in Calls) => result.out = Ok(<<>>)

-----------------------------------------------------------------------------
(* C7 *)

\* The composerData row of the dialog of the last call, if any, is one the
\* order can be read from or one that falls back without an error
MetaReadable ==
    OrderedBubbleIds(store, result.composer_id).status = "ok"

\* C7 as claimed: rows that cannot be made into a message raise nothing
\* and take no other row with them.
C7_BadRecordNeverBlocks ==
    (IsCall("get_dialog_messages") /\ dbExists /\ MetaReadable) => Returned

-----------------------------------------------------------------------------
(* C8 *)

\* The dialog of the last call has a composerData row longer than 100
\* bytes that is not JSON, or whose fullConversationHeadersOnly is not a
\* list of dicts naming a bubbleId
MetaMalformed ==
    \E i \in MetaOf(result.composer_id) :
        /\ store[i].len > Threshold
        /\ \/ store[i].value.json = "invalid"
           \/ /\ store[i].value.doc.t = "dict"
              /\ "fullConversationHeadersOnly" \in DOMAIN store[i].value.doc.d
              /\ ~DeclaresOrder(store[i].value)

\* C8 as claimed: with a malformed composerData row the call does what it
\* does for a dialog without a declared order.
C8_MalformedMetadataFallsBack ==
    (IsCall("get_dialog_messages") /\ MetaMalformed)
    => result.out = DecodeMessages(store, FetchDialogRows(store, result.composer_id))

-----------------------------------------------------------------------------
(* C4 *)

\* The bubble keys of the rows that are no longer than 100 bytes
ShortKeys ==
    {store[i].key : i \in {j \in 1..Len(store) :
                              store[j].key.k = "bubbleId" /\ store[j].len <= Threshold}}

\* The keys of the rows the values returned by the last call were made of
ReturnedKeys ==
    CASE IsCall("get_dialog_messages") ->
            {result.out.value[i].key : i \in 1..Len(result.out.value)}
      [] IsCall("get_full_dialog") ->
            {BubbleKey(result.composer_id, IdOf(result.out.value[i].bubble_id)) :
                i \in 1..Len(result.out.value)}
      [] IsCall("search_all") ->
            {BubbleKey(result.out.value[i].composer_id,
                       IdOf(result.out.value[i].bubble_id)) :
                i \in 1..Len(result.out.value)}
      [] IsCall("get_dialog_context") ->
            {BubbleKey(result.composer_id, result.out.value[i].bubble_id) :
                i \in 1..Len(result.out.value)}

\* C4: no transcript, search result or context window holds anything made
\* of a row whose value is 100 bytes long or less.
C4_ShortRecordsNeverAppear ==
    Returned => ReturnedKeys \cap ShortKeys = {}

\* A call that returns something while the store holds a short row of a
\* dialog the call reads
C4_Witness ==
    /\ Returned
    /\ result.out.value /= <<>>
    /\ \E k \in ShortKeys : \E r \in ReturnedKeys : k.cid = r.cid

-----------------------------------------------------------------------------
(* C9 *)

\* The loop of search_all with every row decoded, whatever its raw text
RECURSIVE MatchEveryRow(_, _, _, _, _, _, _)
MatchEveryRow(rows, rowids, lookup, query, case_sensitive, limit, all_results) ==
    IF rowids = <<>> THEN Ok(all_results)
    ELSE LET row == rows[Head(rowids)]
             next(acc) == MatchEveryRow(rows, Tail(rowids), lookup, query,
                                        case_sensitive, limit, acc)
             loaded == JsonLoads(row.value)
         IN IF row.key.cid \notin DOMAIN lookup THEN next(all_results)
            ELSE IF loaded.status = "raise" THEN next(all_results)
            ELSE IF ~IsDict(loaded.value) THEN Raise("AttributeError")
            ELSE LET found == search_in_bubble(loaded.value.d, query, case_sensitive)
                 IN IF found.status = "raise" THEN found
                    ELSE IF found.value = <<>> THEN next(all_results)
                    ELSE LET grown ==
                                 all_results
                                 \o Annotate(found.value, loaded.value.d,
                                             row.key.cid, lookup[row.key.cid])
                         IN IF Len(grown) >= limit THEN Ok(grown) ELSE next(grown)

SearchDecodingEveryRow ==
    LET scanned == MatchEveryRow(store, FetchAllBubbles(store),
                                 ComposerLookup(workspace, result.project_filter),
                                 result.query, result.case_sensitive,
                                 result.limit, <<>>)
    IN IF scanned.status = "raise" THEN scanned
       ELSE Ok(Truncate(SortByLastUpdated(scanned.value), result.limit))

\* C9 as claimed: search_all returns what it would return if it decoded
\* every row and matched it field by field.
C9_PreCheckChangesNothing ==
    IsCall("search_all") => result.out = SearchDecodingEveryRow

-----------------------------------------------------------------------------
(* C10 *)

\* C10: search_all returns at most limit matches.
C10_AtMostLimit ==
    (IsCall("search_all") /\ Returned) => Len(result.out.value) <= result.limit

\* A search cut to its limit: the scan had gathered more matches
C10_Witness ==
    /\ IsCall("search_all")
    /\ Returned
    /\ result.limit >= 1
    /\ Len(result.out.value) = result.limit
    /\ LET scanned == ScanRows(store, FetchAllBubbles(store),
                               ComposerLookup(workspace, result.project_filter),
                               result.query, result.case_sensitive,
                               result.limit, <<>>)
       IN Len(scanned.value) > result.limit

-----------------------------------------------------------------------------
(* C11 *)

\* C11: the matches search_all returns are in non-increasing order of the
\* lastUpdatedAt of their dialogs.
C11_SortedByLastUpdated ==
    (IsCall("search_all") /\ Returned)
    => \A i \in 1..(Len(result.out.value) - 1) :
          result.out.value[i].last_updated >= result.out.value[i + 1].last_updated

\* Two matches returned, the one of the later dialog first although its row
\* is scanned after the row of the other
C11_Witness ==
    /\ IsCall("search_all")
    /\ Returned
    /\ Len(result.out.value) = 2
    /\ result.out.value[1].last_updated > result.out.value[2].last_updated
    /\ \E i, j \in 1..Len(store) :
          /\ i < j
          /\ store[i].key = BubbleKey(result.out.value[2].composer_id,
                                      IdOf(result.out.value[2].bubble_id))
          /\ store[j].key = BubbleKey(result.out.value[1].composer_id,
                                      IdOf(result.out.value[1].bubble_id))

-----------------------------------------------------------------------------
(* C12 *)

\* The composerData row of the dialog is longer than 100 bytes and declares
\* an order that names the bubble the window is asked around
Located ==
    /\ LongOrderDeclared
    /\ \E i \in 1..Len(OrderOfCall) : OrderOfCall[i] = result.bubble_id

\* The first place of the bubble in the declared order, counted from 1
Position ==
    CHOOSE i \in 1..Len(OrderOfCall) :
        /\ OrderOfCall[i] = result.bubble_id
        /\ \A j \in 1..(i - 1) : OrderOfCall[j] /= result.bubble_id

WindowFirst ==
    IF Position - result.context_size < 1 THEN 1
    ELSE Position - result.context_size

WindowLast ==
    IF Position + result.context_size > Len(OrderOfCall) THEN Len(OrderOfCall)
    ELSE Position + result.context_size

\* The declared ids from WindowFirst to WindowLast
WindowIds ==
    [k \in 1..(WindowLast - WindowFirst + 1) |-> OrderOfCall[WindowFirst + k - 1]]

ContextIdsOf(messages) == [i \in 1..Len(messages) |-> messages[i].bubble_id]

\* C12 as claimed: the window get_dialog_context returns holds a message
\* for every declared id from max(0, i - radius) to min(n - 1, i + radius).
C12_WholeWindow ==
    (IsCall("get_dialog_context") /\ Located /\ Returned)
    => ContextIdsOf(result.out.value) = WindowIds

\* C12, amended: for a bubble first declared at position i of n ids,
\* get_dialog_context returns, in the declared order, the messages of the
\* ids at positions max(0, i - radius) to min(n - 1, i + radius) whose row
\* is in the store, longer than 100 bytes and JSON; it returns nothing and
\* raises when the row of one of these ids is JSON but not a dict.
C12_WindowOfUsableRecords ==
    (IsCall("get_dialog_context") /\ Located)
    => IF \E k \in 1..Len(WindowIds) :
              \E i \in 1..Len(store) :
                  /\ store[i].key = BubbleKey(result.composer_id, WindowIds[k])
                  /\ Undecodable(store[i])
       THEN Raised
       ELSE /\ Returned
            /\ ContextIdsOf(result.out.value) =
                 SelectSeq(WindowIds,
                           LAMBDA b : HasUsableRecord(result.composer_id, b))

\* Three distinct ids declared, the window of size 1 around the last one:
\* it is cut at the end of the order and holds the last two messages
C12_Witness ==
    /\ IsCall("get_dialog_context")
    /\ Located
    /\ Returned
    /\ Len(OrderOfCall) = 3
    /\ Position = 3
    /\ result.context_size = 1
    /\ ContextIdsOf(result.out.value) = <<OrderOfCall[2], OrderOfCall[3]>>
    /\ OrderOfCall[1] /= OrderOfCall[2]

-----------------------------------------------------------------------------
(* C13 *)

Flagged(messages) == {i \in 1..Len(messages) : messages[i].is_target}

\* C13 as claimed: a window that is not empty holds exactly one message
\* flagged as the target, the one of the bubble asked for.
C13_ExactlyOneTarget ==
    (IsCall("get_dialog_context") /\ Returned /\ result.out.value /= <<>>)
    => /\ Cardinality(Flagged(result.out.value)) = 1
       /\ \A i \in Flagged(result.out.value) :
             result.out.value[i].bubble_id = result.bubble_id

\* C13, amended: in a window a message is flagged as the target exactly
\* when it is the message of the bubble asked for; the window holds one
\* such message for each time the declared ids of the window name the
\* bubble when its row is in the store, longer than 100 bytes and JSON, and
\* none otherwise.
C13_TargetFlagged ==
    (IsCall("get_dialog_context") /\ Returned)
    => /\ \A i \in 1..Len(result.out.value) :
             result.out.value[i].is_target
             <=> result.out.value[i].bubble_id = result.bubble_id
       /\ Cardinality(Flagged(result.out.value)) =
             IF Located /\ HasUsableRecord(result.composer_id, result.bubble_id)
             THEN Cardinality({k \in 1..Len(WindowIds) :
                                  WindowIds[k] = result.bubble_id})
             ELSE 0

\* The window of size 1 around the middle one of three messages: three
\* messages, the middle one flagged
C13_Witness ==
    /\ IsCall("get_dialog_context")
    /\ Returned
    /\ result.context_size = 1
    /\ Len(result.out.value) = 3
    /\ Flagged(result.out.value) = {2}
    /\ result.out.value[2].bubble_id = result.bubble_id

-----------------------------------------------------------------------------
(* C14 *)

\* C14 as claimed: around a bubble no declared order names, whatever the
\* composerData row, get_dialog_context returns the empty list and raises
\* nothing.
C14_NotLocatedIsEmpty ==
    (IsCall("get_dialog_context") /\ ~Located) => result.out = Ok(<<>>)

-----------------------------------------------------------------------------
(* C15 *)

\* The bubble of the first row, decoded
FirstBubble == JsonLoads(store[1].value).value.d

\* content or text or thinking or signature of a payload: the first of
\* them that is there and neither empty nor zero
Resolved(payload) ==
    LET there == SelectSeq(<<"content", "text", "thinking", "signature">>,
                           LAMBDA k : k \in DOMAIN payload /\ IsTruthy(payload[k]))
    IN IF there = <<>> THEN JStr(<<>>) ELSE payload[there[1]]

\* A bubble of type 2 without text whose thinking payload resolves to a
\* string that starts with AVSoXO, which no base64 decoding turns into text
UndecodableSignature ==
    /\ store /= <<>>
    /\ Field(FirstBubble, "type") = JNum(2)
    /\ Field(FirstBubble, "text").t = "str"
    /\ Strip(Field(FirstBubble, "text").s) = <<>>
    /\ Field(FirstBubble, "thinking").t = "dict"
    /\ Resolved(FirstBubble.thinking.d).t = "str"
    /\ StartsWith(Resolved(FirstBubble.thinking.d).s, AVSoXO)

\* C15: such a bubble is returned by get_dialog_messages as a thinking
\* segment whose content is the signature as it is stored.
C15_UndecodedSignatureIsThought ==
    (IsCall("get_dialog_messages") /\ UndecodableSignature)
    => /\ Returned
       /\ Len(result.out.value) = 1
       /\ result.out.value[1].is_thought
       /\ result.out.value[1].thinking_content = Resolved(FirstBubble.thinking.d)

\* The payload holds nothing but the signature, and the bubble has neither
\* the thought flag nor a duration
C15_Witness ==
    /\ IsCall("get_dialog_messages")
    /\ UndecodableSignature
    /\ DOMAIN FirstBubble.thinking.d = {"signature"}
    /\ Field(FirstBubble, "isThought").t = "absent"
    /\ Field(FirstBubble, "thinkingDurationMs").t = "absent"
    /\ Returned
    /\ result.out.value[1].is_thought
    /\ result.out.value[1].thinking_content = Signature

-----------------------------------------------------------------------------
(* C16 *)

SourceKind ==
    <<"active", "project", "context", "relevant", "selected", "selected_context">>

\* The paths source n of a bubble names
NamedBy(bubble, n) ==
    {path \in Paths : Field(bubble, SourceField[n]) \in SourceValues(n, path)}

\* Each source of the bubble is missing or names one path
NameOnePath(bubble) ==
    \A n \in 1..6 :
        \/ Field(bubble, SourceField[n]).t = "absent"
        \/ NamedBy(bubble, n) /= {}

PresentSources(bubble) ==
    SelectSeq(<<1, 2, 3, 4, 5, 6>>, LAMBDA n : NamedBy(bubble, n) /= {})

\* One reference for each source that is there, with the kind of the
\* source and the path it names
ExpectedReferences(bubble) ==
    LET present == PresentSources(bubble)
    IN [i \in 1..Len(present) |->
           [type |-> SourceKind[present[i]],
            path |-> Str(CHOOSE path \in Paths : path \in NamedBy(bubble, present[i]))]]

KindAndPath(files) ==
    [i \in 1..Len(files) |-> [type |-> files[i].type, path |-> files[i].path]]

\* C16: of a bubble in which N of the six sources name one path each,
\* extract_attached_files returns N references, one for each source in the
\* order of the sources, each with the kind of its source and the path it
\* names, whether or not two sources name the same path; none for N = 0.
C16_OneReferencePerSource ==
    (IsCall("extract_attached_files") /\ store /= <<>>)
    => LET bubble == FirstBubble
       IN NameOnePath(bubble)
          => /\ Returned
             /\ KindAndPath(result.out.value) = ExpectedReferences(bubble)

\* The six sources name the same path: six references
C16_Witness ==
    /\ IsCall("extract_attached_files")
    /\ store /= <<>>
    /\ \A n \in 1..6 : NamedBy(FirstBubble, n) = {"a.py"}
    /\ Returned
    /\ Len(result.out.value) = 6

-----------------------------------------------------------------------------
(* C17 *)

\* The first bubble holds one project layout
OneLayout ==
    /\ store /= <<>>
    /\ Field(FirstBubble, "projectLayouts").t = "list"
    /\ Len(FirstBubble.projectLayouts.l) = 1

TheLayout == FirstBubble.projectLayouts.l[1]

\* The tokens of part are in a row among the tokens of whole
Occurs(part, whole) ==
    \E i \in 1..(Len(whole) - Len(part) + 1) :
        SubSeq(whole, i, i + Len(part) - 1) = part

\* The layouts of Trees whose values are all written in the tokens: the
\* only ones whose JSON the tokens can be
TreesWrittenIn(tokens) ==
    TreesOf({v \in LayoutValues : Occurs(DumpsLayout(v), tokens)})

\* C17: from a bubble whose layout is written as the string of its JSON,
\* extract_attached_files returns the references it returns from the same
\* bubble with the layout itself.
C17_StringLayoutAsParsed ==
    (IsCall("extract_attached_files") /\ OneLayout)
    => LET bubble == FirstBubble
           layout == bubble.projectLayouts.l[1]
       IN layout.t = "str"
          => \A t \in TreesWrittenIn(layout.s) :
                layout.s = DumpsLayout(t)
                => result.out =
                     Ok(extract_attached_files(
                            [bubble EXCEPT !.projectLayouts = JList(<<t>>)]))

\* A layout written as a string, with a file in a directory and a file
\* beside it: two references
C17_Witness ==
    /\ IsCall("extract_attached_files")
    /\ OneLayout
    /\ TheLayout.t = "str"
    /\ Returned
    /\ Len(result.out.value) = 2
    /\ result.out.value[1].path = JStr(<<"src", "/", "a.py">>)
    /\ result.out.value[2].path = JStr(<<"a.py">>)

-----------------------------------------------------------------------------
(* C18 *)

\* The rows search_all is to search: stored bubbles longer than the
\* threshold, of a dialog the project filter lets through, that are JSON
\* objects with a text
SearchedBubbles ==
    {i \in 1..Len(store) :
        /\ store[i].key.k = "bubbleId"
        /\ LongEnough(store[i])
        /\ \E c \in 1..Len(workspace) :
              /\ workspace[c].composerId = store[i].key.cid
              /\ ~FilteredOut(workspace[c], result.project_filter)
        /\ JsonLoads(store[i].value).status = "ok"
        /\ IsDict(JsonLoads(store[i].value).value)
        /\ Field(JsonLoads(store[i].value).value.d, "text").t = "str"}

\* The text of the bubble of row i, decoded
TextOf(i) == JsonLoads(store[i].value).value.d.text.s

\* A returned match in the text of the bubble of row i
TextMatchOf(i) ==
    \E m \in 1..Len(result.out.value) :
        /\ result.out.value[m].field = "text"
        /\ result.out.value[m].composer_id = store[i].key.cid
        /\ result.out.value[m].bubble_id = Str(store[i].key.bid)
        /\ result.out.value[m].content = TextOf(i)

\* Without case sensitivity, a text in which the query occurs in whatever
\* letter case is matched (when the limit cut nothing)
C18_MatchesWhateverTheCase ==
    (/\ IsCall("search_all")
     /\ ~result.case_sensitive
     /\ Returned
     /\ Len(result.out.value) < result.limit)
    => \A i \in SearchedBubbles :
          Contains(LowerSeq(TextOf(i)), LowerSeq(result.query)) => TextMatchOf(i)

\* With case sensitivity, the query occurs, letter for letter, in the
\* content of every match
C18_ExactCaseOnly ==
    (IsCall("search_all") /\ result.case_sensitive /\ Returned)
    => \A m \in 1..Len(result.out.value) :
          Contains(result.out.value[m].content, result.query)

\* C18: without case sensitivity search_all matches an occurrence of the
\* query whatever the letter case of the query or of the stored text; with
\* case sensitivity an occurrence that differs from the query in letter
\* case only is no match.
C18_CaseMatching == C18_MatchesWhateverTheCase /\ C18_ExactCaseOnly

-----------------------------------------------------------------------------
(* C19 *)

\* The project name of a composer holds the filter, letter case aside
NameHoldsFilter(project_name) ==
    Contains(LowerSeq(project_name), LowerSeq(result.project_filter))

\* The dialogs of the workspace the filter excludes
ExcludedDialogs ==
    {workspace[c].composerId : c \in
        {c \in 1..Len(workspace) : ~NameHoldsFilter(workspace[c].project_name)}}

\* The table without the rows of the excluded dialogs
StoreOfKeptDialogs ==
    SelectSeq(store, LAMBDA r : r.key.cid \notin ExcludedDialogs)

\* A row of an excluded dialog that holds the query and, decoded and
\* searched, would raise
ExcludedRowThatWouldRaise ==
    \E i \in 1..Len(store) :
        /\ store[i].key.cid \in ExcludedDialogs
        /\ LongEnough(store[i])
        /\ PreCheck(result.query, result.case_sensitive, store[i].value)
        /\ JsonLoads(store[i].value).status = "ok"
        /\ ~IsDict(JsonLoads(store[i].value).value)

\* C19: with a project filter, search_all returns no match of a dialog
\* whose project name does not hold the filter, letter case aside, and the
\* rows of such dialogs take no part in the search: the outcome is that of
\* the search of the table without them.
C19_ExcludedDialogsSkipped ==
    (IsCall("search_all") /\ result.project_filter /= <<>>)
    => /\ Returned
          => \A m \in 1..Len(result.out.value) :
                /\ NameHoldsFilter(result.out.value[m].project_name)
                /\ result.out.value[m].composer_id \notin ExcludedDialogs
       /\ result.out = search_all(dbExists, StoreOfKeptDialogs, workspace,
                                  result.query, result.case_sensitive,
                                  result.project_filter, result.limit)

\* A filtered search that returns a match of the dialog kept, past a row of
\* the excluded dialog that would have raised
C19_Witness ==
    /\ IsCall("search_all")
    /\ result.project_filter /= <<>>
    /\ ExcludedRowThatWouldRaise
    /\ Returned
    /\ result.out.value /= <<>>

-----------------------------------------------------------------------------
(* C20 *)

\* C20: no call of get_dialog_messages, get_full_dialog, search_all or
\* get_dialog_context modifies the store: after every call, and so after
\* every sequence of calls, the database file is there or not as before and
\* the table holds the rows it held, with their values, in their order.
C20_StoreNeverModified ==
    [][dbExists' = dbExists /\ store' = store]_vars

\* A window was read after another call, from a table that holds rows
C20_Witness ==
    /\ IsCall("get_dialog_context")
    /\ Returned
    /\ result.out.value /= <<>>
    /\ dbExists
    /\ Len(store) > MaxRows

-----------------------------------------------------------------------------
(* C21 *)

\* The tool code of the first bubble
ToolCodeOf == GetNone(ToolDataOf(store).d, "tool")

\* The first bubble holds a tool call whose code is a number outside
\* TOOL_TYPES
UnknownCode ==
    /\ store /= <<>>
    /\ IsDict(ToolDataOf(store))
    /\ ToolCodeOf.t = "num"
    /\ ToolCodeOf.n \notin {1, 3, 5, 6, 7, 8, 9, 11, 12, 15, 16, 18, 19}

\* The label of the rendered tool call: what follows the first word of the
\* first line, up to the name in the one-line form
LabelOf(lines) ==
    LET line == lines[1]
    IN IF \E i \in 1..Len(line) : line[i] = "-"
       THEN SubSeq(line, 2, (CHOOSE i \in 1..Len(line) : line[i] = "-") - 1)
       ELSE Tail(line)

\* C21: a tool call whose code N is a number outside the closed set is
\* rendered, by format_tool_call and by _format_tool_call_md, with a label
\* that holds the number N and is the name of no code.
C21_UnknownCodeKeepsNumber ==
    (IsCall("format_tool_call") \/ IsCall("_format_tool_call_md")) /\ UnknownCode
    => /\ Returned
       /\ result.out.value /= <<>>
       /\ Occurs(Digits(ToolCodeOf.n), LabelOf(result.out.value))
       /\ \A n \in DOMAIN TOOL_TYPES :
             LabelOf(result.out.value) /= <<TOOL_TYPES[n]>>

-----------------------------------------------------------------------------
(* C22 *)

\* The rows the search of the state took from the cursor
SearchTrace ==
    ScanTrace(store, FetchAllBubbles(store),
              ComposerLookup(workspace, result.project_filter),
              result.query, result.case_sensitive, result.limit, 0)

\* C22: the scan of search_all stops as soon as limit matches are gathered:
\* no row is taken from the cursor once the matches gathered number at
\* least limit.
C22_NoRowReadPastLimit ==
    IsCall("search_all")
    => \A i \in 1..Len(SearchTrace) : SearchTrace[i].gathered < result.limit

-----------------------------------------------------------------------------
(* C23 *)

\* The first bubble, decoded
MatchedBubble == JsonLoads(store[1].value).value.d

\* The pattern of the call occurs in a value that is a text
HoldsPattern(v) ==
    /\ v.t = "str"
    /\ IF result.case_sensitive THEN Contains(v.s, result.query)
       ELSE Contains(LowerSeq(v.s), LowerSeq(result.query))

\* The four sub-fields of a bubble, by the name a match gives them: the
\* text, the arguments and the result of the tool call, and the text of
\* the thinking payload (its content, else its text, or the payload when
\* it is a string)
SubField(bubble, name) ==
    LET tool == Field(bubble, "toolFormerData")
        th == Field(bubble, "thinking")
    IN CASE name = "text" -> Field(bubble, "text")
         [] name = "tool_args" ->
               IF IsDict(tool) THEN Field(tool.d, "rawArgs") ELSE JAbsent
         [] name = "tool_result" ->
               IF IsDict(tool) THEN Field(tool.d, "result") ELSE JAbsent
         [] name = "thinking" ->
               IF IsDict(th)
               THEN (IF Truthy(Field(th.d, "content"))
                     THEN Field(th.d, "content") ELSE Field(th.d, "text"))
               ELSE th

SubFieldNames == {"text", "tool_args", "tool_result", "thinking"}

MatchingSubFields(bubble) ==
    {name \in SubFieldNames : HoldsPattern(SubField(bubble, name))}

\* C23: a bubble that passes the raw check and decodes yields as many
\* matches as it has sub-fields, among text, tool_args, tool_result and
\* thinking, that hold the pattern: one match for each such sub-field,
\* whatever the other sub-fields are.
C23_OneMatchPerMatchingSubField ==
    (/\ IsCall("search_in_bubble")
     /\ PreCheck(result.query, result.case_sensitive, store[1].value))
    => /\ Returned
       /\ Len(result.out.value) = Cardinality(MatchingSubFields(MatchedBubble))
       /\ {result.out.value[i].field : i \in 1..Len(result.out.value)}
             = MatchingSubFields(MatchedBubble)

-----------------------------------------------------------------------------
(* C24 *)

\* The first bubble is of type 2 (assistant) and its text, stripped, is
\* empty
AssistantWithoutText ==
    /\ store /= <<>>
    /\ Field(FirstBubble, "type") = JNum(2)
    /\ Field(FirstBubble, "text").t = "str"
    /\ Strip(Field(FirstBubble, "text").s) = <<>>

\* It carries a thought flag that is set, a thinking payload that is not
\* empty, or a thinking duration that is not zero
CarriesThought ==
    \/ Field(FirstBubble, "isThought") = JBool(TRUE)
    \/ IsTruthy(Field(FirstBubble, "thinking"))
    \/ /\ Field(FirstBubble, "thinkingDurationMs").t = "num"
       /\ Field(FirstBubble, "thinkingDurationMs").n /= 0

\* C24: every assistant bubble without text that carries a thought flag, a
\* thinking payload or a non-zero thinking duration is returned by
\* get_dialog_messages as a thinking segment.
C24_ThoughtsAreThinkingSegments ==
    (IsCall("get_dialog_messages") /\ AssistantWithoutText /\ CarriesThought)
    => /\ Returned
       /\ Len(result.out.value) = 1
       /\ result.out.value[1].is_thought

-----------------------------------------------------------------------------
(* C25 *)

\* The returned message is a thinking segment
ThinkingSegment ==
    /\ IsCall("get_dialog_messages")
    /\ store /= <<>>
    /\ Returned
    /\ Len(result.out.value) = 1
    /\ result.out.value[1].is_thought

\* The first of content, text, thinking and signature that the payload
\* holds, an empty or null field counting as not held
FirstHeld(payload) ==
    IF Truthy(Field(payload, "content")) THEN payload.content
    ELSE IF Truthy(Field(payload, "text")) THEN payload.text
    ELSE IF Truthy(Field(payload, "thinking")) THEN payload.thinking
    ELSE IF Truthy(Field(payload, "signature")) THEN payload.signature
    ELSE JStr(<<>>)

\* C25: the content of a thinking segment whose payload is a dict is the
\* first held of the payload's content, text, thinking and signature; the
\* content of one whose payload is a string is that string.
C25_ContentResolutionOrder ==
    ThinkingSegment
    => LET payload == Field(FirstBubble, "thinking")
       IN /\ payload.t = "dict"
             => result.out.value[1].thinking_content = FirstHeld(payload.d)
          /\ payload.t = "str"
             => result.out.value[1].thinking_content = payload

\* The payload holds an empty content, no text, and both a thinking field
\* and a signature: the thinking field is the content
C25_Witness ==
    /\ ThinkingSegment
    /\ Field(FirstBubble, "thinking").t = "dict"
    /\ Field(FirstBubble.thinking.d, "content") = JStr(<<>>)
    /\ Field(FirstBubble.thinking.d, "text").t = "absent"
    /\ Field(FirstBubble.thinking.d, "thinking") = Plain
    /\ Field(FirstBubble.thinking.d, "signature") = Signature
    /\ result.out.value[1].thinking_content = Plain

\* The payload is a bare string
C25_WitnessString ==
    /\ ThinkingSegment
    /\ Field(FirstBubble, "thinking") = Plain
    /\ result.out.value[1].thinking_content = Plain

-----------------------------------------------------------------------------
(* C26 *)

\* The value the content of the segment is resolved from: the first held
\* field of a dict payload, or the payload when it is a string
ResolvedValue ==
    LET payload == Field(FirstBubble, "thinking")
    IN IF payload.t = "dict" THEN FirstHeld(payload.d) ELSE payload

\* It is a string that starts with AVSoXO
PrefixedValue ==
    /\ ResolvedValue.t = "str"
    /\ StartsWith(ResolvedValue.s, AVSoXO)

-----------------------------------------------------------------------------
(* C27 *)

\* The value a sequence of keys leads to in a tree, from the root
RECURSIVE Descend(_, _)
Descend(tree, keys) ==
    IF keys = <<>> THEN tree
    ELSE IF tree.t /= "odict" THEN JAbsent
    ELSE IF \E i \in 1..Len(tree.items) : tree.items[i].k = Head(keys)
         THEN Descend(tree.items[CHOOSE i \in 1..Len(tree.items) :
                                     tree.items[i].k = Head(keys)].v,
                      Tail(keys))
         ELSE JAbsent

\* The sequences of keys a stored tree can hold
KeyPaths == UNION {[1..n -> {"src"} \cup Paths] : n \in 1..MaxDepth}

\* The leaves of a tree: the sequences of keys that lead to null
Leaves(tree) == {keys \in KeyPaths : Descend(tree, keys) = JNull}

\* The keys joined with "/"
Joined(keys) == JStr(JoinWith([i \in 1..Len(keys) |-> <<keys[i]>>], "/"))

\* The first bubble holds one layout, a tree
OneTree ==
    /\ OneLayout
    /\ TheLayout.t = "odict"

\* The paths of the project references returned, in order
ProjectPaths ==
    LET refs == SelectSeq(result.out.value, LAMBDA f : f.type = "project")
    IN [i \in 1..Len(refs) |-> refs[i].path]

\* C27: each leaf of a project tree (a key whose value is null) yields
\* exactly one path, the keys from the root to the leaf joined with "/",
\* and nothing else of the tree yields a path.
C27_OnePathPerLeaf ==
    (IsCall("extract_attached_files") /\ OneTree)
    => /\ Returned
       /\ Len(ProjectPaths) = Cardinality(Leaves(TheLayout))
       /\ {ProjectPaths[i] : i \in 1..Len(ProjectPaths)}
             = {Joined(keys) : keys \in Leaves(TheLayout)}

\* A tree with a directory that holds two leaves, beside a value that is
\* neither a leaf nor a directory
C27_Witness ==
    /\ IsCall("extract_attached_files")
    /\ OneTree
    /\ Leaves(TheLayout) = {<<"src", "a.py">>, <<"src", "src">>}
    /\ Descend(TheLayout, <<"a.py">>) = JNum(0)
    /\ Returned
    /\ Len(ProjectPaths) = 2

-----------------------------------------------------------------------------
(* C28 *)

\* The first bubble carries a tool invocation, by the test claimed: its
\* tool data holds a tool code that is not null or a name that is not null
ToolCarried ==
    LET tool_data == ToolDataOf(store)
    IN /\ IsDict(tool_data)
       /\ \/ GetNone(tool_data.d, "tool").t /= "null"
          \/ GetNone(tool_data.d, "name").t /= "null"

\* Rendering: format_tool_call and _format_tool_call_md render a tool call
\* exactly when one is carried
C28_Rendering ==
    (IsCall("format_tool_call") \/ IsCall("_format_tool_call_md"))
    => /\ Returned
       /\ (result.out.value /= <<>>) <=> ToolCarried

\* Retention: get_full_dialog keeps a bubble without text exactly when it
\* carries a tool invocation
C28_Retention ==
    (/\ IsCall("get_full_dialog")
     /\ Strip(Field(FirstBubble, "text").s) = <<>>)
    => /\ Returned
       /\ (result.out.value /= <<>>) <=> ToolCarried

\* C28: a record is treated as carrying a tool invocation exactly when its
\* tool code is not null or its tool name is not null, and this one test
\* decides both what is rendered and what is retained.
C28_OneTestOfToolPresence == C28_Rendering /\ C28_Retention

-----------------------------------------------------------------------------
(* C29 *)

\* The window get_dialog_context gives around a match of the last search,
\* asked for as format_search_results asks for it
WindowOf(match, context_size) ==
    get_dialog_context(dbExists, store, match.composer_id, IdOf(match.bubble_id),
                       context_size)

\* The window holds the message of the match, flagged as target
HoldsTarget(window, match) ==
    \E i \in DOMAIN window :
        /\ window[i].is_target
        /\ Str(window[i].bubble_id) = match.bubble_id

\* C29: every match a search returns has, for every radius, a window that
\* is not empty and holds the matched message flagged as target.
C29_EveryMatchHasItsWindow ==
    (IsCall("search_all") /\ Returned)
    => \A i \in DOMAIN result.out.value :
          \A context_size \in 0..MaxRadius :
             LET window == WindowOf(result.out.value[i], context_size)
             IN /\ window.status = "ok"
                /\ window.value /= <<>>
                /\ HoldsTarget(window.value, result.out.value[i])

-----------------------------------------------------------------------------
(* C30 *)

\* The transcript get_dialog_messages gives for the dialog of a match
TranscriptOf(match) == get_dialog_messages(dbExists, store, match.composer_id)

\* The transcript holds the message the match refers to
HoldsMessage(transcript, match) ==
    \E i \in DOMAIN transcript : transcript[i].bubble_id = match.bubble_id

\* C30: every match a search returns refers to a message that is in the
\* transcript get_dialog_messages returns for the dialog of the match.
C30_MatchesAreInTheTranscript ==
    (IsCall("search_all") /\ Returned)
    => \A i \in DOMAIN result.out.value :
          LET transcript == TranscriptOf(result.out.value[i])
          IN /\ transcript.status = "ok"
             /\ HoldsMessage(transcript.value, result.out.value[i])

====
